---- MODULE Spec2Model ----
(***************************************************************************)
(* Model of the ng-update migration runner (UpdateProject.migrate,         *)
(* createMigrationSchematicRule, createUpgradeRule) and of the             *)
(* OverlayMouseClickDispatcher of the component library.                   *)
(***************************************************************************)
EXTENDS Bags, FiniteSets, Integers, Sequences, TLC

\* ------------------------------------------------------------------------
\* Bounds
\* ------------------------------------------------------------------------
\* Number of migration types handed to the runner (cdkMigrations + extra).
NumMigrations == 2
\* Largest number of projects in the workspace configuration.
MaxProjects == 2
\* Largest number of failures one migration instance records in init(), and
\* again while visiting.
MaxFailures == 1
\* Largest number of direct UpdateProject.migrate calls on one analyzedFiles.
MaxCalls == 2

\* Number of overlays that are attached to and detached from the dispatcher.
NumOverlays == 3
\* Largest number of add and remove calls on the dispatcher.
MaxOps == 4
\* Largest client coordinate of a click.
MaxCoord == 4
\* Largest number of clicks dispatched to the body.
MaxClicks == 1
\* How far the numbers assigned to value and bufferValue reach below 0
\* and above 100.
Margin == 1
\* Largest number of animationEnd events followed.
MaxEmits == 1
\* Largest number of calls of PendingCopy.copy followed.
MaxCopies == 2
\* Number of harness environments of one fixture, and largest number of
\* calls of forceStabilize and getAllRawElements followed.
NumEnvironments == 2
MaxHarnessCalls == 2
\* Largest number of schematics in a migration collection.
NumSchematics == 2
\* Largest column width and largest requested size (one more) in pixels.
MaxWidth == 2
\* Largest radius of a circle.
MaxRadius == 1

NULL == "null"

Migrations == 1..NumMigrations

\* ------------------------------------------------------------------------
\* The file system and the TypeScript programs the runner works on
\* ------------------------------------------------------------------------
\* ts.SourceFile.isDeclarationFile
IsDeclarationFile(f) == f = "/w/src/types.d.ts"

\* ts.Program.isSourceFileFromExternalLibrary
IsSourceFileFromExternalLibrary(f) == f = "/w/node_modules/lib/index.ts"

\* FileSystem.resolve: a path relative to the workspace and its absolute
\* form resolve to the same path.
Resolve(f) ==
  CASE f = "src/shared.ts" -> "/w/src/shared.ts"
    [] f = "src/styles.css" -> "/w/src/styles.css"
    [] OTHER -> f

\* ts.Program.getSourceFiles() of the program created from a tsconfig.
GetSourceFiles(tsconfig) ==
  CASE tsconfig = "tsconfig.app.json" ->
         << "/w/src/types.d.ts", "/w/node_modules/lib/index.ts",
            "/w/src/shared.ts", "/w/src/app.ts" >>
    [] tsconfig = "tsconfig.lib.json" ->
         << "/w/src/types.d.ts", "src/shared.ts", "/w/src/lib.ts" >>
    [] tsconfig = "tsconfig.spec.json" ->
         << "/w/src/shared.ts", "/w/src/app.ts", "/w/src/app.spec.ts",
            "/w/node_modules/lib/index.ts" >>
    [] OTHER -> << >>

External(path) == [filePath |-> path, inline |-> FALSE]
Inline(sourceFile) == [filePath |-> sourceFile, inline |-> TRUE]

\* Templates the ComponentResourceCollector resolves from the components of
\* a source file (templateUrl: external, template: inline).
TemplatesOf(f) ==
  CASE f = "/w/src/app.ts" ->
         << External("/w/src/app.html"), External("/w/src/app.html") >>
    [] Resolve(f) = "/w/src/shared.ts" -> << Inline(f), External("/w/src/shared.html") >>
    [] f = "/w/src/lib.ts" -> << External("/w/src/shared.html") >>
    [] f = "/w/src/app.spec.ts" -> << External("/w/src/app.html"), Inline(f) >>
    [] f = "/w/node_modules/lib/index.ts" -> << External("/w/node_modules/lib/lib.html") >>
    [] OTHER -> << >>

\* Stylesheets the collector resolves (styleUrls: external, styles: inline).
StylesheetsOf(f) ==
  CASE f = "/w/src/app.ts" ->
         << External("/w/src/app.css"), External("/w/src/styles.css") >>
    [] Resolve(f) = "/w/src/shared.ts" -> << Inline(f) >>
    [] f = "/w/src/lib.ts" -> << External("/w/src/app.css"), External("/w/src/lib.css") >>
    [] f = "/w/src/app.spec.ts" -> << External("/w/src/app.css") >>
    [] OTHER -> << >>

\* globSync('!(node_modules|dist)/**/*.+(css|scss)') below a project root.
GlobStylesheets(root) ==
  CASE root = "" -> << "/w/src/styles.css", "/w/src/global.css", "/w/src/app.css" >>
    [] root = "projects/lib" -> << "/w/src/lib.css", "/w/src/global.css" >>
    [] OTHER -> << >>

Project(root, build, test) == [root |-> root, build |-> build, test |-> test]

\* The workspace projects considered, reduced to what the runner reads of
\* them: the root and the tsconfig of the build and of the test target.
Projects ==
  { Project("", "tsconfig.app.json", "tsconfig.spec.json"),
    Project("", "tsconfig.app.json", NULL),
    Project("", NULL, "tsconfig.spec.json"),
    Project("projects/lib", "tsconfig.lib.json", "tsconfig.spec.json"),
    Project("projects/lib", NULL, NULL) }

Tsconfigs == {"tsconfig.app.json", "tsconfig.lib.json", "tsconfig.spec.json"}
Roots == {"", "projects/lib"}

\* getTargetTsconfigPath(project, targetName): the path or null.
GetTargetTsconfigPath(project, targetName) ==
  IF targetName = "build" THEN project.build ELSE project.test

Falsy(x) == x = NULL \/ x = ""

\* ------------------------------------------------------------------------
\* State
\* ------------------------------------------------------------------------
VARIABLES
  caller,              \* "migration": createMigrationSchematicRule,
                       \* "upgrade": createUpgradeRule, "direct": a direct
                       \* caller of UpdateProject.migrate, "none"
  workspace,           \* getWorkspaceConfigGracefully(tree)
  hasCallback,         \* whether onMigrationCompleteFn was passed
  pc,                  \* position in the rule / in migrate
  projIdx,             \* index of projectName in projectNames
  isTestTarget,        \* updateContext.isTestTarget of the current run
  analyzedFiles,       \* the shared Set<string> of resolved paths
  program,             \* source files of the program being migrated
  additionalStylesheetPaths, \* the optional fourth argument of migrate
  instances,           \* migration instances made by _createMigrations
  migrations,          \* the enabled instances (result of _createMigrations)
  resolvedTemplates,   \* resourceCollector.resolvedTemplates
  resolvedStylesheets, \* resourceCollector.resolvedStylesheets
  visits,              \* bag of <<kind, resolved path, inline>>: how often
                       \* migrations.forEach(visit...) ran on a file
  calledOn,            \* <<method, migration>> calls made in this migrate
  done,                \* statements of the current run already executed
  warned,              \* logger.warn calls made by this migrate call
  result,              \* value returned by the last migrate call
  hasFailures,         \* the rule's hasFailures / hasRuleFailures
  runPackageManager,   \* the rule's runPackageManager
  events,              \* what the rule did, in order
  commitCount,         \* number of fileSystem.commitEdits() calls
  pendingEdits,        \* paths with recorded, uncommitted edits
  calls                \* direct migrate calls made so far

mvars == << caller, workspace, hasCallback, pc, projIdx, isTestTarget,
            analyzedFiles, program, additionalStylesheetPaths, instances,
            migrations, resolvedTemplates, resolvedStylesheets, visits,
            calledOn, done, warned, result, hasFailures, runPackageManager,
            events, commitCount, pendingEdits, calls >>

\* OverlayMouseClickDispatcher
VARIABLES
  attachedOverlays,    \* _attachedOverlays
  isAttached,          \* _isAttached (undefined, which is falsy, at first)
  bodyListeners,       \* the listeners registered on document.body
  opLog,               \* the add and remove calls made, in order
  detachCalls,         \* the overlays on which detach() was called
  lastClick            \* the latest click event dispatched to the body

ovars == << attachedOverlays, isAttached, bodyListeners, opLog, detachCalls,
            lastClick >>

\* MatProgressBar
VARIABLES
  pbImpl,              \* "standard" or "mdc": which MatProgressBar
  pbNoop,              \* _isNoopAnimation
  pbIsBrowser,         \* _platform.isBrowser (MDC)
  pbDir,               \* _dir.value, "none" without Directionality (MDC)
  pbValueInput,        \* what was last assigned to the value input
  pbBufferInput,       \* what was last assigned to the bufferValue input
  pbValue,             \* _value
  pbBufferValue,       \* _bufferValue
  pbMode,              \* mode
  pbFoundation,        \* the MDC foundation and what was synced to it
  pbSubscribed,        \* whether _animationEndSubscription is live
  pbEmitCount,         \* number of animationEnd events emitted
  pbLastEmitted,       \* the latest animationEnd event
  pbPhase              \* "constructed", "viewInit" or "destroyed"

pvars == << pbImpl, pbNoop, pbIsBrowser, pbDir, pbValueInput, pbBufferInput,
            pbValue, pbBufferValue, pbMode, pbFoundation, pbSubscribed,
            pbEmitCount, pbLastEmitted, pbPhase >>

\* MatCommonModule
VARIABLES
  sanityChecks,          \* _sanityChecks: the injected MATERIAL_SANITY_CHECKS
  devMode,               \* what isDevMode() returns
  window,                \* the window: whether __karma__ and jasmine are set
  document,              \* the document, or that there is none
  versionsMatch,         \* VERSION.full === CDK_VERSION.full
  hasDoneGlobalChecks,   \* _hasDoneGlobalChecks
  checksRun,             \* per check, whether it found itself enabled
  warnings               \* what console.warn was called with

svars == << sanityChecks, devMode, window, document, versionsMatch,
            hasDoneGlobalChecks, checksRun, warnings >>

\* PendingCopy
VARIABLES
  textarea,        \* _textarea: its value and whether it is in the body, or none
  activeElement,   \* document.activeElement
  clipboard,       \* what the clipboard holds
  copyCount,       \* number of calls of copy()
  lastCopy         \* the latest call of copy(): what the browser did, the outcome

cvars == << textarea, activeElement, clipboard, copyCount, lastCopy >>

\* TestbedHarnessEnvironment
VARIABLES
  fixtureDestroyed,   \* whether the fixture (its componentRef) is destroyed
  destroyCbs,         \* environments whose callback the componentRef holds
  environments,       \* per environment: constructed, _destroyed
  harnessCalls        \* the calls of forceStabilize and getAllRawElements

hvars == << fixtureDestroyed, destroyCbs, environments, harnessCalls >>

\* Release output validations
VARIABLES
  parsed,          \* the parsed package.json given to checkPackageJsonFile
  fileResult,      \* what checkPackageJsonFile did
  ngUpdate,        \* the ng-update entry and the migration collection it names
  targetVersion,   \* the version being released
  migrationResult  \* what checkPackageJsonMigrations did

rvars == << parsed, fileResult, ngUpdate, targetVersion, migrationResult >>

\* Resizable
VARIABLES
  nativeElement,        \* whether elementRef.nativeElement is there
  minWidthPxInternal,
  maxWidthPxInternal,
  viewInitialized,      \* ngAfterViewInit has run: the resize events are listened to
  resizableDestroyed,   \* destroyed has emitted
  overlayActive,        \* the element carries OVERLAY_ACTIVE_CLASS
  resizeStrategy,       \* what was last applied to the resize strategy
  lastResize            \* the latest resize request that was applied

zvars == << nativeElement, minWidthPxInternal, maxWidthPxInternal,
            viewInitialized, resizableDestroyed, overlayActive,
            resizeStrategy, lastResize >>

\* MapCircle
VARIABLES
  isBrowser,       \* _map._isBrowser
  circleOptions,   \* the value of _options
  circleCenter,    \* the value of _center
  circleRadius,    \* the value of _radius
  circle,          \* the google.maps.Circle: its center and radius
  circlePhase      \* "constructed", "initialized" or "destroyed"

gvars == << isBrowser, circleOptions, circleCenter, circleRadius, circle,
            circlePhase >>

vars == << mvars, ovars, pvars, svars, cvars, hvars, rvars, zvars, gvars >>

\* What the steps of the migration runner leave alone, and what the
\* operations of the other components leave alone.
nonMigrationVars == << ovars, pvars, svars, cvars, hvars, rvars, zvars, gvars >>
nonOverlayVars == << mvars, pvars, svars, cvars, hvars, rvars, zvars, gvars >>
nonProgressVars == << mvars, ovars, svars, cvars, hvars, rvars, zvars, gvars >>
nonSanityVars == << mvars, ovars, pvars, cvars, hvars, rvars, zvars, gvars >>
nonCopyVars == << mvars, ovars, pvars, svars, hvars, rvars, zvars, gvars >>
nonHarnessVars == << mvars, ovars, pvars, svars, cvars, rvars, zvars, gvars >>
nonReleaseVars == << mvars, ovars, pvars, svars, cvars, hvars, zvars, gvars >>
nonResizableVars == << mvars, ovars, pvars, svars, cvars, hvars, rvars, gvars >>
nonCircleVars == << mvars, ovars, pvars, svars, cvars, hvars, rvars, zvars >>

\* ------------------------------------------------------------------------
\* UpdateProject.migrate
\* ------------------------------------------------------------------------
Defined(paths) == [defined |-> TRUE, paths |-> paths]
Missing == [defined |-> FALSE, paths |-> << >>]
NoResult == [returned |-> FALSE, hasFailures |-> FALSE]

\* Variant: every instance is kept, enabled or not.
CreateMigrations_All(inst) == Migrations

\* _createMigrations: only the instances enabled after init() are kept.
CreateMigrations(inst) == {m \in Migrations : inst[m].enabled}

\* The filter of getSourceFiles(): no declaration files, nothing from
\* external libraries.
IsMigratedSourceFile(f) ==
  ~IsDeclarationFile(f) /\ ~IsSourceFileFromExternalLibrary(f)

\* Variant: the source file loop without the check of analyzedFiles.
ShouldVisitSourceFile_Always(analyzed, resolvedPath) == TRUE

\* The guard of the source file loop.
ShouldVisitSourceFile(analyzed, resolvedPath) == resolvedPath \notin analyzed

\* The guard of the template and of the stylesheet loop.
ShouldVisitResource(analyzed, resource) ==
  resource.inline \/ Resolve(resource.filePath) \notin analyzed

\* Variant: additional stylesheets are visited whether analyzed or not.
ShouldVisitAdditional_Always(analyzed, resolvedPath) == TRUE

\* The guard of the additional stylesheet loop.
ShouldVisitAdditional(analyzed, resolvedPath) == resolvedPath \notin analyzed

Visit(kind, resolvedPath, inline) == SetToBag({<<kind, resolvedPath, inline>>})

Calls(method, ms) == {<<method, m>> : m \in ms}

\* Every visit method of a migration may record an edit for the file.
RecordEdits(edits, ms, resolvedPath) ==
  IF ms = {} THEN edits ELSE edits \cup {resolvedPath}

\* sourceFiles.forEach(...), from element i on.  st carries analyzedFiles,
\* the visits, the collector's resolved resources and the recorded edits.
RECURSIVE SourceFileLoop(_, _, _, _)
SourceFileLoop(files, i, ms, st) ==
  IF i > Len(files) THEN st
  ELSE LET f == files[i]
           resolvedPath == Resolve(f)
       IN IF IsMigratedSourceFile(f) /\ ShouldVisitSourceFile(st.analyzed, resolvedPath)
          THEN SourceFileLoop(files, i + 1, ms,
                 [analyzed |-> st.analyzed \cup {resolvedPath},
                  visits |-> st.visits (+) Visit("node", resolvedPath, FALSE),
                  templates |-> st.templates \o TemplatesOf(f),
                  stylesheets |-> st.stylesheets \o StylesheetsOf(f),
                  edits |-> RecordEdits(st.edits, ms, resolvedPath),
                  visited |-> TRUE])
          ELSE SourceFileLoop(files, i + 1, ms, st)

\* resolvedTemplates.forEach(...) and resolvedStylesheets.forEach(...).
RECURSIVE ResourceLoop(_, _, _, _, _)
ResourceLoop(kind, resources, i, ms, st) ==
  IF i > Len(resources) THEN st
  ELSE LET r == resources[i]
           resolvedPath == Resolve(r.filePath)
       IN IF ShouldVisitResource(st.analyzed, r)
          THEN ResourceLoop(kind, resources, i + 1, ms,
                 [st EXCEPT !.analyzed = @ \cup {resolvedPath},
                            !.visits = @ (+) Visit(kind, resolvedPath, r.inline),
                            !.edits = RecordEdits(@, ms, resolvedPath),
                            !.visited = TRUE])
          ELSE ResourceLoop(kind, resources, i + 1, ms, st)

\* additionalStylesheetPaths.forEach(...).
RECURSIVE AdditionalLoop(_, _, _, _)
AdditionalLoop(paths, i, ms, st) ==
  IF i > Len(paths) THEN st
  ELSE LET resolvedPath == Resolve(paths[i])
       IN IF ShouldVisitAdditional(st.analyzed, resolvedPath)
          THEN AdditionalLoop(paths, i + 1, ms,
                 [st EXCEPT !.analyzed = @ \cup {resolvedPath},
                            !.visits = @ (+) Visit("stylesheet", resolvedPath, FALSE),
                            !.edits = RecordEdits(@, ms, resolvedPath),
                            !.visited = TRUE])
          ELSE AdditionalLoop(paths, i + 1, ms, st)

LoopState == [analyzed |-> analyzedFiles, visits |-> visits,
              templates |-> resolvedTemplates, stylesheets |-> resolvedStylesheets,
              edits |-> pendingEdits, visited |-> FALSE]

\* migrations.reduce((res, m) => res.concat(m.failures), []).length
RECURSIVE SumFailures(_, _)
SumFailures(inst, ms) ==
  IF ms = {} THEN 0
  ELSE LET m == CHOOSE x \in ms : TRUE
       IN inst[m].failures + SumFailures(inst, ms \ {m})

\* The failures collected from the migrations.
CollectedFailures(inst, ms) == SumFailures(inst, ms)

\* Variant: the edits are committed before the templates are visited.
RunMigrationsSteps_CommitEarly ==
  << "create", "sources", "commit", "templates", "stylesheets", "additional",
     "postAnalysis", "collect", "accumulate" >>

\* Variant: the edits of a run are not committed.
RunMigrationsSteps_NoCommit ==
  << "create", "sources", "templates", "stylesheets", "additional",
     "postAnalysis", "collect", "accumulate" >>

\* The statements of runMigrations in the order they execute: those of
\* UpdateProject.migrate, then fileSystem.commitEdits(), then the update of
\* hasFailures.
RunMigrationsSteps ==
  << "create", "sources", "templates", "stylesheets", "additional",
     "postAnalysis", "collect", "commit", "accumulate" >>

RECURSIVE IndexOf(_, _, _)
IndexOf(seq, x, i) ==
  IF i > Len(seq) THEN 0 ELSE IF seq[i] = x THEN i ELSE IndexOf(seq, x, i + 1)

\* The statement that follows statement step.
StepAfter(step) ==
  LET i == IndexOf(RunMigrationsSteps, step, 1)
  IN IF i = 0 \/ i = Len(RunMigrationsSteps) THEN "end" ELSE RunMigrationsSteps[i + 1]


\* Where control goes after statement step of a run.  A direct caller of
\* migrate gets control back when migrate returns.
Advance(step) ==
  LET n == StepAfter(step)
  IN IF caller = "direct" /\ n \in {"commit", "end"} THEN "idle"
     ELSE IF n = "end" THEN (IF isTestTarget THEN "project" ELSE "test")
     ELSE n

AdvanceProject(step) ==
  IF caller # "direct" /\ StepAfter(step) = "end" /\ isTestTarget
  THEN projIdx + 1 ELSE projIdx

InstanceStates == [enabled : BOOLEAN, failures : 0..MaxFailures]
NoInstances == [m \in Migrations |-> [enabled |-> FALSE, failures |-> 0]]

\* const migrations = this._createMigrations(migrationTypes, target, data);
\* const resourceCollector = new ComponentResourceCollector(...);
\* init() decides whether an instance is enabled and may record failures.
MigrateCreate ==
  /\ pc = "create"
  /\ \E inst \in [Migrations -> InstanceStates] :
       /\ instances' = inst
       /\ migrations' = CreateMigrations(inst)
  /\ resolvedTemplates' = << >>
  /\ resolvedStylesheets' = << >>
  /\ calledOn' = {}
  /\ warned' = 0
  /\ result' = NoResult
  /\ done' = {"create"}
  /\ pc' = Advance("create")
  /\ projIdx' = AdvanceProject("create")
  /\ UNCHANGED << caller, workspace, hasCallback, isTestTarget, analyzedFiles,
                  program, additionalStylesheetPaths, visits, hasFailures,
                  runPackageManager, events, commitCount, pendingEdits, calls >>
  /\ UNCHANGED nonMigrationVars

\* sourceFiles.forEach(sourceFile => {...})
MigrateSourceFiles ==
  /\ pc = "sources"
  /\ LET st == SourceFileLoop(program, 1, migrations, LoopState)
     IN /\ analyzedFiles' = st.analyzed
        /\ visits' = st.visits
        /\ resolvedTemplates' = st.templates
        /\ resolvedStylesheets' = st.stylesheets
        /\ pendingEdits' = st.edits
        /\ calledOn' = calledOn \cup
             (IF st.visited THEN Calls("visitNode", migrations) ELSE {})
  /\ done' = done \cup {"sources"}
  /\ pc' = Advance("sources")
  /\ projIdx' = AdvanceProject("sources")
  /\ UNCHANGED << caller, workspace, hasCallback, isTestTarget, program,
                  additionalStylesheetPaths, instances, migrations, warned,
                  result, hasFailures, runPackageManager, events, commitCount,
                  calls >>
  /\ UNCHANGED nonMigrationVars

\* resourceCollector.resolvedTemplates.forEach(template => {...})
MigrateTemplates ==
  /\ pc = "templates"
  /\ LET st == ResourceLoop("template", resolvedTemplates, 1, migrations, LoopState)
     IN /\ analyzedFiles' = st.analyzed
        /\ visits' = st.visits
        /\ pendingEdits' = st.edits
        /\ calledOn' = calledOn \cup
             (IF st.visited THEN Calls("visitTemplate", migrations) ELSE {})
  /\ done' = done \cup {"templates"}
  /\ pc' = Advance("templates")
  /\ projIdx' = AdvanceProject("templates")
  /\ UNCHANGED << caller, workspace, hasCallback, isTestTarget, program,
                  additionalStylesheetPaths, instances, migrations,
                  resolvedTemplates, resolvedStylesheets, warned, result,
                  hasFailures, runPackageManager, events, commitCount, calls >>
  /\ UNCHANGED nonMigrationVars

\* resourceCollector.resolvedStylesheets.forEach(stylesheet => {...})
MigrateStylesheets ==
  /\ pc = "stylesheets"
  /\ LET st == ResourceLoop("stylesheet", resolvedStylesheets, 1, migrations, LoopState)
     IN /\ analyzedFiles' = st.analyzed
        /\ visits' = st.visits
        /\ pendingEdits' = st.edits
        /\ calledOn' = calledOn \cup
             (IF st.visited THEN Calls("visitStylesheet", migrations) ELSE {})
  /\ done' = done \cup {"stylesheets"}
  /\ pc' = Advance("stylesheets")
  /\ projIdx' = AdvanceProject("stylesheets")
  /\ UNCHANGED << caller, workspace, hasCallback, isTestTarget, program,
                  additionalStylesheetPaths, instances, migrations,
                  resolvedTemplates, resolvedStylesheets, warned, result,
                  hasFailures, runPackageManager, events, commitCount, calls >>
  /\ UNCHANGED nonMigrationVars

\* additionalStylesheetPaths.forEach(filePath => {...}): a TypeError when
\* the argument was not passed, which ends the call (and its caller).
MigrateAdditionalStylesheets ==
  /\ pc = "additional"
  /\ IF additionalStylesheetPaths.defined
     THEN LET st == AdditionalLoop(additionalStylesheetPaths.paths, 1, migrations, LoopState)
          IN /\ analyzedFiles' = st.analyzed
             /\ visits' = st.visits
             /\ pendingEdits' = st.edits
             /\ calledOn' = calledOn \cup
                  (IF st.visited THEN Calls("visitStylesheet", migrations) ELSE {})
             /\ done' = done \cup {"additional"}
             /\ pc' = Advance("additional")
             /\ projIdx' = AdvanceProject("additional")
     ELSE /\ pc' = "thrown"
          /\ UNCHANGED << analyzedFiles, visits, pendingEdits, calledOn, done, projIdx >>
  /\ UNCHANGED << caller, workspace, hasCallback, isTestTarget, program,
                  additionalStylesheetPaths, instances, migrations,
                  resolvedTemplates, resolvedStylesheets, warned, result,
                  hasFailures, runPackageManager, events, commitCount, calls >>
  /\ UNCHANGED nonMigrationVars

\* migrations.forEach(r => r.postAnalysis());  by now every enabled
\* migration has recorded the failures it found in its visit methods and in
\* postAnalysis.
MigratePostAnalysis ==
  /\ pc = "postAnalysis"
  /\ \E found \in [migrations -> 0..MaxFailures] :
       instances' = [m \in Migrations |->
                       IF m \in migrations
                       THEN [instances[m] EXCEPT !.failures = @ + found[m]]
                       ELSE instances[m]]
  /\ calledOn' = calledOn \cup Calls("postAnalysis", migrations)
  /\ done' = done \cup {"postAnalysis"}
  /\ pc' = Advance("postAnalysis")
  /\ projIdx' = AdvanceProject("postAnalysis")
  /\ UNCHANGED << caller, workspace, hasCallback, isTestTarget, analyzedFiles,
                  program, additionalStylesheetPaths, migrations,
                  resolvedTemplates, resolvedStylesheets, visits, warned,
                  result, hasFailures, runPackageManager, events, commitCount,
                  pendingEdits, calls >>
  /\ UNCHANGED nonMigrationVars

\* const failures = migrations.reduce(...); one logger.warn per failure;
\* return {hasFailures: !!failures.length}.  The locals of the call (the
\* instances, the resource collector) end with it.
MigrateCollect ==
  /\ pc = "collect"
  /\ LET failures == CollectedFailures(instances, migrations)
     IN /\ warned' = warned + failures
        /\ result' = [returned |-> TRUE, hasFailures |-> failures # 0]
  /\ instances' = NoInstances
  /\ migrations' = {}
  /\ resolvedTemplates' = << >>
  /\ resolvedStylesheets' = << >>
  /\ calledOn' = {}
  /\ done' = done \cup {"collect"}
  /\ pc' = Advance("collect")
  /\ projIdx' = AdvanceProject("collect")
  /\ UNCHANGED << caller, workspace, hasCallback, isTestTarget, analyzedFiles,
                  program, additionalStylesheetPaths, visits, hasFailures,
                  runPackageManager, events, commitCount, pendingEdits, calls >>
  /\ UNCHANGED nonMigrationVars

\* ------------------------------------------------------------------------
\* createMigrationSchematicRule and createUpgradeRule
\* ------------------------------------------------------------------------
Ev(ev, proj, test, fail) == [ev |-> ev, proj |-> proj, test |-> test, fail |-> fail]
Log(ev) == Ev(ev, 0, FALSE, FALSE)

\* Variant: the result of a run overwrites hasFailures.
AccumulateFailures_Overwrite(soFar, res) == res

\* hasFailures = hasFailures || result.hasFailures
AccumulateFailures(soFar, res) == soFar \/ res

\* onMigrationComplete of the Material ng-update schematic: three info
\* lines, and the warning when there were failures.
OnMigrationComplete(fail) ==
  << Log("info"), Log("info"), Log("info") >>
    \o (IF fail THEN << Log("warnIssues") >> ELSE << >>)

\* Variant: the rule goes on without a workspace configuration.
RuleStart_NoCheck ==
  /\ pc = "start"
  /\ events' = events
  /\ pc' = "project"
  /\ analyzedFiles' = {}
  /\ hasFailures' = FALSE
  /\ projIdx' = 1
  /\ UNCHANGED << caller, workspace, hasCallback, isTestTarget, program,
                  additionalStylesheetPaths, instances, migrations,
                  resolvedTemplates, resolvedStylesheets, visits, calledOn,
                  done, warned, result, runPackageManager, commitCount,
                  pendingEdits, calls >>
  /\ UNCHANGED nonMigrationVars

\* The rule starts: without a workspace configuration it logs the error and
\* returns.
RuleStart ==
  /\ pc = "start"
  /\ IF ~workspace.found
     THEN /\ events' = Append(events, Log("errorNoWorkspace"))
          /\ pc' = "done"
     ELSE /\ events' = events
          /\ pc' = "project"
  /\ analyzedFiles' = {}
  /\ hasFailures' = FALSE
  /\ projIdx' = 1
  /\ UNCHANGED << caller, workspace, hasCallback, isTestTarget, program,
                  additionalStylesheetPaths, instances, migrations,
                  resolvedTemplates, resolvedStylesheets, visits, calledOn,
                  done, warned, result, runPackageManager, commitCount,
                  pendingEdits, calls >>
  /\ UNCHANGED nonMigrationVars

\* Variant: a project without tsconfig ends the loop (break for continue).
ProjectLoop_Break ==
  /\ pc = "project"
  /\ IF projIdx > Len(workspace.projects)
     THEN /\ pc' = "post"
          /\ UNCHANGED << projIdx, events >>
     ELSE LET project == workspace.projects[projIdx]
              buildTsconfigPath == GetTargetTsconfigPath(project, "build")
              testTsconfigPath == GetTargetTsconfigPath(project, "test")
          IN IF Falsy(buildTsconfigPath) /\ Falsy(testTsconfigPath)
             THEN /\ events' = Append(events, Ev("warnNoTsconfig", projIdx, FALSE, FALSE))
                  /\ projIdx' = projIdx + 1
                  /\ pc' = "post"
             ELSE /\ pc' = "build"
                  /\ UNCHANGED << projIdx, events >>
  /\ UNCHANGED << caller, workspace, hasCallback, isTestTarget, analyzedFiles,
                  program, additionalStylesheetPaths, instances, migrations,
                  resolvedTemplates, resolvedStylesheets, visits, calledOn,
                  done, warned, result, hasFailures, runPackageManager,
                  commitCount, pendingEdits, calls >>
  /\ UNCHANGED nonMigrationVars

\* for (const projectName of projectNames): the loop head, and the check
\* for a project without any tsconfig.
ProjectLoop ==
  /\ pc = "project"
  /\ IF projIdx > Len(workspace.projects)
     THEN /\ pc' = "post"
          /\ UNCHANGED << projIdx, events >>
     ELSE LET project == workspace.projects[projIdx]
              buildTsconfigPath == GetTargetTsconfigPath(project, "build")
              testTsconfigPath == GetTargetTsconfigPath(project, "test")
          IN IF Falsy(buildTsconfigPath) /\ Falsy(testTsconfigPath)
             THEN /\ events' = Append(events, Ev("warnNoTsconfig", projIdx, FALSE, FALSE))
                  /\ projIdx' = projIdx + 1
                  /\ pc' = "project"
             ELSE /\ pc' = "build"
                  /\ UNCHANGED << projIdx, events >>
  /\ UNCHANGED << caller, workspace, hasCallback, isTestTarget, analyzedFiles,
                  program, additionalStylesheetPaths, instances, migrations,
                  resolvedTemplates, resolvedStylesheets, visits, calledOn,
                  done, warned, result, hasFailures, runPackageManager,
                  commitCount, pendingEdits, calls >>
  /\ UNCHANGED nonMigrationVars

\* The call runMigrations(project, projectName, tsconfigPath, isTest) of the
\* migration rule up to the call of migrate: the program is created from
\* the tsconfig and the additional stylesheets are globbed.
StartRun(project, tsconfigPath, isTest) ==
  /\ program' = GetSourceFiles(tsconfigPath)
  /\ additionalStylesheetPaths' = Defined(GlobStylesheets(project.root))
  /\ isTestTarget' = isTest
  /\ events' = Append(events, Ev("run", projIdx, isTest, FALSE))
  /\ done' = {}
  /\ pc' = RunMigrationsSteps[1]
  /\ UNCHANGED << hasFailures, projIdx >>

\* runMigration of the upgrade rule: runMigrationRules(...) returns whether
\* there were failures, which is accumulated.
RunUpgrade(isTest) ==
  \E res \in BOOLEAN :
    /\ hasFailures' = AccumulateFailures(hasFailures, res)
    /\ events' = events \o << Ev("run", projIdx, isTest, FALSE),
                              Ev("result", projIdx, isTest, res) >>
    /\ isTestTarget' = isTest
    /\ pc' = IF isTest THEN "project" ELSE "test"
    /\ projIdx' = IF isTest THEN projIdx + 1 ELSE projIdx
    /\ UNCHANGED << program, additionalStylesheetPaths, done >>

\* if (buildTsconfigPath !== null) runMigrations(..., buildTsconfigPath, false)
BuildTarget ==
  /\ pc = "build"
  /\ LET project == workspace.projects[projIdx]
         buildTsconfigPath == GetTargetTsconfigPath(project, "build")
     IN IF buildTsconfigPath # NULL
        THEN IF caller = "migration"
             THEN StartRun(project, buildTsconfigPath, FALSE)
             ELSE RunUpgrade(FALSE)
        ELSE /\ pc' = "test"
             /\ UNCHANGED << program, additionalStylesheetPaths, isTestTarget,
                             events, done, hasFailures, projIdx >>
  /\ UNCHANGED << caller, workspace, hasCallback, analyzedFiles, instances,
                  migrations, resolvedTemplates, resolvedStylesheets, visits,
                  calledOn, warned, result, runPackageManager, commitCount,
                  pendingEdits, calls >>
  /\ UNCHANGED nonMigrationVars

\* if (testTsconfigPath !== null) runMigrations(..., testTsconfigPath, true)
TestTarget ==
  /\ pc = "test"
  /\ LET project == workspace.projects[projIdx]
         testTsconfigPath == GetTargetTsconfigPath(project, "test")
     IN IF testTsconfigPath # NULL
        THEN IF caller = "migration"
             THEN StartRun(project, testTsconfigPath, TRUE)
             ELSE RunUpgrade(TRUE)
        ELSE /\ pc' = "project"
             /\ projIdx' = projIdx + 1
             /\ UNCHANGED << program, additionalStylesheetPaths, isTestTarget,
                             events, done, hasFailures >>
  /\ UNCHANGED << caller, workspace, hasCallback, analyzedFiles, instances,
                  migrations, resolvedTemplates, resolvedStylesheets, visits,
                  calledOn, warned, result, runPackageManager, commitCount,
                  pendingEdits, calls >>
  /\ UNCHANGED nonMigrationVars

\* fileSystem.commitEdits()
CommitEdits ==
  /\ pc = "commit"
  /\ commitCount' = commitCount + 1
  /\ pendingEdits' = {}
  /\ events' = Append(events, Ev("commit", projIdx, isTestTarget, FALSE))
  /\ done' = done \cup {"commit"}
  /\ pc' = Advance("commit")
  /\ projIdx' = AdvanceProject("commit")
  /\ UNCHANGED << caller, workspace, hasCallback, isTestTarget, analyzedFiles,
                  program, additionalStylesheetPaths, instances, migrations,
                  resolvedTemplates, resolvedStylesheets, visits, calledOn,
                  warned, result, hasFailures, runPackageManager, calls >>
  /\ UNCHANGED nonMigrationVars

\* hasFailures = hasFailures || result.hasFailures
Accumulate ==
  /\ pc = "accumulate"
  /\ hasFailures' = AccumulateFailures(hasFailures, result.hasFailures)
  /\ events' = Append(events, Ev("result", projIdx, isTestTarget, result.hasFailures))
  /\ done' = done \cup {"accumulate"}
  /\ pc' = Advance("accumulate")
  /\ projIdx' = AdvanceProject("accumulate")
  /\ UNCHANGED << caller, workspace, hasCallback, isTestTarget, analyzedFiles,
                  program, additionalStylesheetPaths, instances, migrations,
                  resolvedTemplates, resolvedStylesheets, visits, calledOn,
                  warned, result, runPackageManager, commitCount, pendingEdits,
                  calls >>
  /\ UNCHANGED nonMigrationVars

\* The globalPostMigration events of the migrations in called, in the order
\* of the migrations list.
RECURSIVE GlobalPostEvents(_, _)
GlobalPostEvents(m, called) ==
  IF m > NumMigrations THEN << >>
  ELSE (IF m \in called THEN << Ev("globalPostMigration", m, FALSE, FALSE) >> ELSE << >>)
         \o GlobalPostEvents(m + 1, called)

\* The migrations whose static globalPostMigration is called: of the
\* migration rule the devkit migrations that define it (withHook), of the
\* upgrade rule every rule.
GlobalPostCalled(withHook) ==
  IF caller = "migration" THEN withHook ELSE Migrations

\* migrations.forEach(m => {... m.globalPostMigration(tree, context) ...})
\* requesting: the migrations whose hook returns {runPackageManager: true}.
GlobalPostMigration ==
  /\ pc = "post"
  /\ \E withHook \in SUBSET Migrations :
       \E requesting \in SUBSET GlobalPostCalled(withHook) :
         /\ events' = events \o GlobalPostEvents(1, GlobalPostCalled(withHook))
         /\ runPackageManager' = (requesting # {})
  /\ pc' = "task"
  /\ UNCHANGED << caller, workspace, hasCallback, projIdx, isTestTarget,
                  analyzedFiles, program, additionalStylesheetPaths, instances,
                  migrations, resolvedTemplates, resolvedStylesheets, visits,
                  calledOn, done, warned, result, hasFailures, commitCount,
                  pendingEdits, calls >>
  /\ UNCHANGED nonMigrationVars

\* if (runPackageManager) context.addTask(new NodePackageInstallTask(...))
AddTask ==
  /\ pc = "task"
  /\ events' = IF runPackageManager THEN Append(events, Log("addTask")) ELSE events
  /\ pc' = "complete"
  /\ UNCHANGED << caller, workspace, hasCallback, projIdx, isTestTarget,
                  analyzedFiles, program, additionalStylesheetPaths, instances,
                  migrations, resolvedTemplates, resolvedStylesheets, visits,
                  calledOn, done, warned, result, hasFailures,
                  runPackageManager, commitCount, pendingEdits, calls >>
  /\ UNCHANGED nonMigrationVars

\* if (onMigrationCompleteFn) onMigrationCompleteFn(context, targetVersion,
\*                                                  hasFailures)
Complete ==
  /\ pc = "complete"
  /\ events' = IF hasCallback
               THEN Append(events, Ev("complete", 0, FALSE, hasFailures))
                      \o OnMigrationComplete(hasFailures)
               ELSE events
  /\ pc' = "done"
  /\ UNCHANGED << caller, workspace, hasCallback, projIdx, isTestTarget,
                  analyzedFiles, program, additionalStylesheetPaths, instances,
                  migrations, resolvedTemplates, resolvedStylesheets, visits,
                  calledOn, done, warned, result, hasFailures,
                  runPackageManager, commitCount, pendingEdits, calls >>
  /\ UNCHANGED nonMigrationVars

\* ------------------------------------------------------------------------
\* A direct caller of UpdateProject.migrate: calls on several programs that
\* share one analyzedFiles set, with or without the optional argument.
\* ------------------------------------------------------------------------
DirectCall ==
  /\ caller = "direct"
  /\ pc = "idle"
  /\ calls < MaxCalls
  /\ \E tsconfig \in Tsconfigs :
       program' = GetSourceFiles(tsconfig)
  /\ \E root \in Roots, passed \in BOOLEAN :
       additionalStylesheetPaths' =
         IF passed THEN Defined(GlobStylesheets(root)) ELSE Missing
  /\ calls' = calls + 1
  /\ done' = {}
  /\ pc' = "create"
  /\ UNCHANGED << caller, workspace, hasCallback, projIdx, isTestTarget,
                  analyzedFiles, instances, migrations, resolvedTemplates,
                  resolvedStylesheets, visits, calledOn, warned, result,
                  hasFailures, runPackageManager, events, commitCount,
                  pendingEdits >>
  /\ UNCHANGED nonMigrationVars

\* ------------------------------------------------------------------------
\* OverlayMouseClickDispatcher
\* ------------------------------------------------------------------------
Overlays == 1..NumOverlays

\* this._attachedOverlays.indexOf(overlayRef), 1-based; 0 when absent.
RECURSIVE OverlayIndexOf(_, _, _)
OverlayIndexOf(list, overlayRef, i) ==
  IF i > Len(list) THEN 0
  ELSE IF list[i] = overlayRef THEN i
  ELSE OverlayIndexOf(list, overlayRef, i + 1)

\* this._attachedOverlays.splice(index, 1)
Splice(list, index) ==
  [i \in 1..(Len(list) - 1) |-> IF i < index THEN list[i] ELSE list[i + 1]]

\* Variant: remove() leaves the list as it is.
RemoveOverlay_Keep(list, overlayRef) == list

\* remove(): the list without the first occurrence of overlayRef.
RemoveOverlay(list, overlayRef) ==
  LET index == OverlayIndexOf(list, overlayRef, 1)
  IN IF index > 0 THEN Splice(list, index) ELSE list

\* Variant: the overlay is put in front (unshift for push).
PushOverlay_Front(list, overlayRef) == << overlayRef >> \o list

\* this._attachedOverlays.push(overlayRef)
PushOverlay(list, overlayRef) == Append(list, overlayRef)

Logged(op, overlayRef) == Append(opLog, [op |-> op, overlay |-> overlayRef])

Listener(type, capture) == [type |-> type, capture |-> capture]

\* body.addEventListener(type, listener, capture)
AddEventListener(listeners, type, capture) ==
  listeners \cup {Listener(type, capture)}

\* body.removeEventListener(type, listener, capture): removes the listener
\* registered for the same type and the same capture flag.
RemoveEventListener(listeners, type, capture) ==
  listeners \ {Listener(type, capture)}

\* Variant: the listener is removed without the capture flag.
DetachListeners_NoCapture(listeners) ==
  RemoveEventListener(listeners, "click", FALSE)

\* _detach(), when attached: removeEventListener('click', listener, true)
DetachListeners(listeners) == RemoveEventListener(listeners, "click", TRUE)

\* add(), when not attached: addEventListener('click', listener, true)
AttachListeners(listeners) == AddEventListener(listeners, "click", TRUE)

\* add(overlayRef): remove(overlayRef) first, which detaches the listener
\* when the list gets empty; then attach the listener if there is none,
\* and push the overlay.
Add(overlayRef) ==
  /\ Len(opLog) < MaxOps
  /\ LET removed == RemoveOverlay(attachedOverlays, overlayRef)
         detached == (Len(removed) = 0 /\ isAttached)
         listeners == IF detached THEN DetachListeners(bodyListeners) ELSE bodyListeners
         attached == IF detached THEN FALSE ELSE isAttached
     IN /\ bodyListeners' = IF ~attached THEN AttachListeners(listeners) ELSE listeners
        /\ isAttached' = TRUE
        /\ attachedOverlays' = PushOverlay(removed, overlayRef)
  /\ opLog' = Logged("add", overlayRef)
  /\ UNCHANGED << detachCalls, lastClick >>
  /\ UNCHANGED nonOverlayVars

\* remove(overlayRef): splice it out if present; _detach() when no overlay
\* is left.
Remove(overlayRef) ==
  /\ Len(opLog) < MaxOps
  /\ LET removed == RemoveOverlay(attachedOverlays, overlayRef)
         detached == (Len(removed) = 0 /\ isAttached)
     IN /\ attachedOverlays' = removed
        /\ bodyListeners' = IF detached THEN DetachListeners(bodyListeners) ELSE bodyListeners
        /\ isAttached' = IF detached THEN FALSE ELSE isAttached
  /\ opLog' = Logged("remove", overlayRef)
  /\ UNCHANGED << detachCalls, lastClick >>
  /\ UNCHANGED nonOverlayVars

\* ngOnDestroy(): _detach()
NgOnDestroy ==
  /\ isAttached
  /\ bodyListeners' = DetachListeners(bodyListeners)
  /\ isAttached' = FALSE
  /\ UNCHANGED << attachedOverlays, opLog, detachCalls, lastClick >>
  /\ UNCHANGED nonOverlayVars

Coords == 0..MaxCoord

\* overlayRef.overlayElement.getBoundingClientRect(): overlay k covers the
\* square from (k, k) to (k + 1, k + 1).
OverlayRect(overlayRef) ==
  [left |-> overlayRef, right |-> overlayRef + 1,
   top |-> overlayRef, bottom |-> overlayRef + 1]

\* overlayRef.getConfig().detachOnOutsideClick: set for the overlays with
\* an odd number.
DetachOnOutsideClick(overlayRef) == overlayRef % 2 = 1

\* const isOutsideClick = ...
IsOutsideClick(event, overlayRect) ==
  /\ event.clientX < overlayRect.left /\ overlayRect.right < event.clientX
  /\ event.clientY < overlayRect.top /\ overlayRect.bottom < event.clientY

\* The loop of _clickListener from overlays[i] down: the overlays on which
\* detach() is called, appended to detached.
RECURSIVE ClickLoop(_, _, _, _)
ClickLoop(overlays, i, event, detached) ==
  IF i < 1 THEN detached
  ELSE LET overlayRef == overlays[i]
           overlayRect == OverlayRect(overlayRef)
       IN IF IsOutsideClick(event, overlayRect)
          THEN ClickLoop(overlays, i - 1, event,
                 IF DetachOnOutsideClick(overlayRef)
                 THEN Append(detached, overlayRef) ELSE detached)
          ELSE detached

\* A click lands on the body while the capturing click listener is
\* registered: _clickListener(event).
Click(x, y) ==
  /\ Listener("click", TRUE) \in bodyListeners
  /\ lastClick.n < MaxClicks
  /\ lastClick' = [n |-> lastClick.n + 1, clientX |-> x, clientY |-> y]
  /\ detachCalls' = ClickLoop(attachedOverlays, Len(attachedOverlays), lastClick', detachCalls)
  /\ UNCHANGED << attachedOverlays, isAttached, bodyListeners, opLog >>
  /\ UNCHANGED nonOverlayVars

\* ------------------------------------------------------------------------
\* MatProgressBar (standard and MDC)
\* ------------------------------------------------------------------------
\* JavaScript values that are assigned to the numeric inputs.
Num(n) == [t |-> "number", n |-> n]
NaN == [t |-> "NaN", n |-> 0]
Undefined == [t |-> "undefined", n |-> 0]
Null == [t |-> "null", n |-> 0]

InputNumbers == {-Margin, 0, 50, 100, 100 + Margin}
InputValues == {Num(n) : n \in InputNumbers} \cup {NaN, Undefined, Null}

\* ToNumber of the language: undefined is NaN, null is 0.
ToNumber(v) ==
  CASE v.t = "number" -> v
    [] v.t = "null" -> Num(0)
    [] OTHER -> NaN

\* Truthiness: undefined, null, NaN and 0 are falsy.
Truthy(v) == v.t = "number" /\ v.n # 0

\* v || w
Or(v, w) == IF Truthy(v) THEN v ELSE w

\* Math.min and Math.max: NaN if an argument is NaN.
MathMin(a, b) ==
  LET x == ToNumber(a)
      y == ToNumber(b)
  IN IF x.t = "NaN" \/ y.t = "NaN" THEN NaN
     ELSE Num(IF x.n <= y.n THEN x.n ELSE y.n)

MathMax(a, b) ==
  LET x == ToNumber(a)
      y == ToNumber(b)
  IN IF x.t = "NaN" \/ y.t = "NaN" THEN NaN
     ELSE Num(IF x.n >= y.n THEN x.n ELSE y.n)

\* Variant: no upper limit.
Clamp_NoMax(v) == MathMax(Num(0), v)

\* clamp(v, min = 0, max = 100)
Clamp(v) == MathMax(Num(0), MathMin(Num(100), v))

\* coerceNumberProperty(v): the number, or the fallback 0 for what is not
\* a number.
CoerceNumberProperty(v) == IF v.t = "number" THEN v ELSE Num(0)

ProgressBarModes == {"determinate", "indeterminate", "buffer", "query"}

NoEvent == [emitted |-> FALSE, value |-> Num(0), by |-> "none"]

\* _emitAnimationEnd() of the standard bar, and the body of the MDC bar's
\* transitionend subscription: animationEnd.next({value: this.value}) in
\* determinate or buffer mode.  by names the caller.
EmitsIn(mode) == mode = "determinate" \/ mode = "buffer"

EmitAnimationEnd(mode, value, by) ==
  IF EmitsIn(mode)
  THEN /\ pbEmitCount' = pbEmitCount + 1
       /\ pbLastEmitted' = [emitted |-> TRUE, value |-> value, by |-> by]
  ELSE UNCHANGED << pbEmitCount, pbLastEmitted >>

NoFoundation == [created |-> FALSE, reverse |-> FALSE, determinate |-> TRUE,
                 progress |-> 0, buffer |-> 0]

\* _syncFoundation() of the MDC bar, with the values the bar then has.
\* MDC takes values between 0 and 1; the model keeps the hundredths.
SyncFoundation(foundation, dir, mode, value, bufferValue) ==
  IF foundation.created /\ pbIsBrowser
  THEN [created |-> TRUE,
        reverse |-> IF dir = "rtl" THEN mode # "query" ELSE mode = "query",
        determinate |-> (mode # "indeterminate" /\ mode # "query"),
        progress |-> value.n,
        buffer |-> IF mode = "buffer" THEN Or(bufferValue, Num(0)).n
                   ELSE foundation.buffer]
  ELSE foundation

\* set value(v)
SetValue(v) ==
  /\ pbPhase # "destroyed"
  /\ pbEmitCount < MaxEmits
  /\ pbValueInput' = v
  /\ IF pbImpl = "standard"
     THEN /\ pbValue' = Clamp(Or(CoerceNumberProperty(v), Num(0)))
          /\ IF pbNoop
             THEN EmitAnimationEnd(pbMode, pbValue', "setter")
             ELSE UNCHANGED << pbEmitCount, pbLastEmitted >>
          /\ UNCHANGED pbFoundation
     ELSE /\ pbValue' = Clamp(Or(v, Num(0)))
          /\ pbFoundation' = SyncFoundation(pbFoundation, pbDir, pbMode, pbValue', pbBufferValue)
          /\ UNCHANGED << pbEmitCount, pbLastEmitted >>
  /\ UNCHANGED << pbImpl, pbNoop, pbIsBrowser, pbDir, pbBufferInput,
                  pbBufferValue, pbMode, pbSubscribed, pbPhase >>
  /\ UNCHANGED nonProgressVars

\* set bufferValue(v)
SetBufferValue(v) ==
  /\ pbPhase # "destroyed"
  /\ pbBufferInput' = v
  /\ pbBufferValue' = Clamp(Or(v, Num(0)))
  /\ pbFoundation' = IF pbImpl = "mdc"
                     THEN SyncFoundation(pbFoundation, pbDir, pbMode, pbValue, pbBufferValue')
                     ELSE pbFoundation
  /\ UNCHANGED << pbImpl, pbNoop, pbIsBrowser, pbDir, pbValueInput, pbValue,
                  pbMode, pbSubscribed, pbEmitCount, pbLastEmitted, pbPhase >>
  /\ UNCHANGED nonProgressVars

\* mode = m (a plain field of the standard bar, a setter of the MDC bar)
SetMode(m) ==
  /\ pbPhase # "destroyed"
  /\ pbMode' = m
  /\ pbFoundation' = IF pbImpl = "mdc"
                     THEN SyncFoundation(pbFoundation, pbDir, m, pbValue, pbBufferValue)
                     ELSE pbFoundation
  /\ UNCHANGED << pbImpl, pbNoop, pbIsBrowser, pbDir, pbValueInput,
                  pbBufferInput, pbValue, pbBufferValue, pbSubscribed,
                  pbEmitCount, pbLastEmitted, pbPhase >>
  /\ UNCHANGED nonProgressVars

\* ngAfterViewInit(): the standard bar subscribes to transitionend unless
\* animations are disabled; the MDC bar creates and syncs its foundation
\* and subscribes.
NgAfterViewInit ==
  /\ pbPhase = "constructed"
  /\ pbPhase' = "viewInit"
  /\ IF pbImpl = "standard"
     THEN /\ pbSubscribed' = ~pbNoop
          /\ UNCHANGED pbFoundation
     ELSE /\ pbFoundation' =
               SyncFoundation([NoFoundation EXCEPT !.created = TRUE],
                              pbDir, pbMode, pbValue, pbBufferValue)
          /\ pbSubscribed' = TRUE
  /\ UNCHANGED << pbImpl, pbNoop, pbIsBrowser, pbDir, pbValueInput,
                  pbBufferInput, pbValue, pbBufferValue, pbMode, pbEmitCount,
                  pbLastEmitted >>
  /\ UNCHANGED nonProgressVars

\* A transitionend event reaches the subscription; onTarget: its target is
\* the primary value bar (the filter of the pipe).
TransitionEnd(onTarget) ==
  /\ pbSubscribed
  /\ pbEmitCount < MaxEmits
  /\ IF onTarget
     THEN EmitAnimationEnd(pbMode, pbValue, "transitionend")
     ELSE UNCHANGED << pbEmitCount, pbLastEmitted >>
  /\ UNCHANGED << pbImpl, pbNoop, pbIsBrowser, pbDir, pbValueInput,
                  pbBufferInput, pbValue, pbBufferValue, pbMode, pbFoundation,
                  pbSubscribed, pbPhase >>
  /\ UNCHANGED nonProgressVars

\* The layout direction changes (MDC: _dir.change runs _syncFoundation).
DirChange ==
  /\ pbImpl = "mdc"
  /\ pbDir # "none"
  /\ pbPhase # "destroyed"
  /\ pbDir' = (IF pbDir = "ltr" THEN "rtl" ELSE "ltr")
  /\ pbFoundation' = SyncFoundation(pbFoundation, pbDir', pbMode, pbValue, pbBufferValue)
  /\ UNCHANGED << pbImpl, pbNoop, pbIsBrowser, pbValueInput, pbBufferInput,
                  pbValue, pbBufferValue, pbMode, pbSubscribed, pbEmitCount,
                  pbLastEmitted, pbPhase >>
  /\ UNCHANGED nonProgressVars

\* ngOnDestroy(): the subscriptions are unsubscribed.
ProgressBarDestroy ==
  /\ pbPhase # "destroyed"
  /\ pbPhase' = "destroyed"
  /\ pbSubscribed' = FALSE
  /\ UNCHANGED << pbImpl, pbNoop, pbIsBrowser, pbDir, pbValueInput,
                  pbBufferInput, pbValue, pbBufferValue, pbMode, pbFoundation,
                  pbEmitCount, pbLastEmitted >>
  /\ UNCHANGED nonProgressVars

\* The bar after construction: every input at its default.
InitProgressBar ==
  /\ pbValueInput = Num(0)
  /\ pbBufferInput = Num(0)
  /\ pbValue = Num(0)
  /\ pbBufferValue = Num(0)
  /\ pbMode = "determinate"
  /\ pbFoundation = NoFoundation
  /\ pbSubscribed = FALSE
  /\ pbEmitCount = 0
  /\ pbLastEmitted = NoEvent
  /\ pbPhase = "constructed"

ProgressBarIdle ==
  /\ pbImpl = "none"
  /\ pbNoop = FALSE
  /\ pbIsBrowser = TRUE
  /\ pbDir = "none"
  /\ InitProgressBar

\* ------------------------------------------------------------------------
\* MatCommonModule: the Material sanity checks
\* ------------------------------------------------------------------------
\* SanityChecks = boolean | GranularSanityChecks.  A property read from a
\* boolean is undefined, which is falsy.
AllChecks(b) == [kind |-> "boolean", all |-> b,
                 doctype |-> FALSE, theme |-> FALSE, version |-> FALSE]
Granular(d, t, v) == [kind |-> "granular", all |-> FALSE,
                      doctype |-> d, theme |-> t, version |-> v]
SanityChecksValues ==
  {AllChecks(b) : b \in BOOLEAN}
    \cup {Granular(d, t, v) : d \in BOOLEAN, t \in BOOLEAN, v \in BOOLEAN}

IsTrue(checks) == checks.kind = "boolean" /\ checks.all
IsFalse(checks) == checks.kind = "boolean" /\ ~checks.all

\* _isTestEnv()
IsTestEnv(win) == win.karma \/ win.jasmine

\* _checksAreEnabled()
ChecksAreEnabled(dev, win) == dev /\ ~IsTestEnv(win)

\* isEnabled of _checkDoctypeIsDefined()
DoctypeIsEnabled(checks, dev, win) ==
  ChecksAreEnabled(dev, win) /\ (IsTrue(checks) \/ checks.doctype)

\* isDisabled of _checkThemeIsPresent()
ThemeIsDisabled(checks, dev, win) ==
  ~ChecksAreEnabled(dev, win) \/ (IsFalse(checks) \/ ~checks.theme)

\* isEnabled of _checkCdkVersionMatch()
VersionIsEnabled(checks, dev, win) ==
  ChecksAreEnabled(dev, win) /\ (IsTrue(checks) \/ checks.version)

Documents ==
  {[present |-> FALSE, doctype |-> FALSE, body |-> FALSE, theme |-> FALSE]}
    \cup [present : {TRUE}, doctype : BOOLEAN, body : BOOLEAN, theme : BOOLEAN]

\* The warnings of the three checks.
DoctypeWarnings ==
  IF DoctypeIsEnabled(sanityChecks, devMode, window)
     /\ document.present /\ ~document.doctype
  THEN {"doctype"} ELSE {}

ThemeWarnings ==
  IF ThemeIsDisabled(sanityChecks, devMode, window)
     \/ ~document.present \/ ~document.body
  THEN {}
  ELSE IF ~document.theme THEN {"theme"} ELSE {}

VersionWarnings ==
  IF VersionIsEnabled(sanityChecks, devMode, window) /\ ~versionsMatch
  THEN {"version"} ELSE {}

\* The constructor of MatCommonModule: the three checks, once.
ConstructCommonModule ==
  /\ ~hasDoneGlobalChecks
  /\ checksRun' = [doctype |-> DoctypeIsEnabled(sanityChecks, devMode, window),
                   theme |-> ~ThemeIsDisabled(sanityChecks, devMode, window),
                   version |-> VersionIsEnabled(sanityChecks, devMode, window)]
  /\ warnings' = warnings \cup DoctypeWarnings \cup ThemeWarnings \cup VersionWarnings
  /\ hasDoneGlobalChecks' = TRUE
  /\ UNCHANGED << sanityChecks, devMode, window, document, versionsMatch >>
  /\ UNCHANGED nonSanityVars

NoChecksRun == [doctype |-> FALSE, theme |-> FALSE, version |-> FALSE]

InitCommonModule ==
  /\ hasDoneGlobalChecks = FALSE
  /\ checksRun = NoChecksRun
  /\ warnings = {}

CommonModuleIdle ==
  /\ sanityChecks = AllChecks(TRUE)
  /\ devMode = FALSE
  /\ window = [karma |-> FALSE, jasmine |-> FALSE]
  /\ document = [present |-> FALSE, doctype |-> FALSE, body |-> FALSE, theme |-> FALSE]
  /\ versionsMatch = TRUE
  /\ InitCommonModule

\* ------------------------------------------------------------------------
\* PendingCopy
\* ------------------------------------------------------------------------
Texts == {"", "text"}

NoTextarea == [defined |-> FALSE, value |-> "", inBody |-> FALSE]

\* What can have the focus: nothing, the textarea, an HTMLElement, an
\* element that is not an HTMLElement.
FocusTargets == {"none", "textarea", "htmlElement", "otherElement"}

\* What the browser does during one call: textarea.select() and
\* setSelectionRange() throw or not, execCommand('copy') returns true or
\* false or throws, currentFocus.focus() throws or not.
BrowserBehaviours ==
  [select : {"ok", "throws"}, execCommand : {"true", "false", "throws"},
   focus : {"ok", "throws"}]

\* The body of the try block: the value of successful, whether an error
\* was thrown out of the block, the focus and what reached the clipboard.
TryBlock(area, currentFocus, browser) ==
  LET unchanged == [successful |-> FALSE, thrown |-> FALSE,
                    focus |-> currentFocus, copied |-> FALSE]
  IN IF ~area.defined THEN unchanged
     ELSE IF browser.select = "throws"
       THEN [unchanged EXCEPT !.thrown = TRUE]
     ELSE IF browser.execCommand = "throws"
       THEN [unchanged EXCEPT !.thrown = TRUE, !.focus = "textarea"]
     ELSE LET successful == browser.execCommand = "true"
          IN IF currentFocus = "htmlElement" \/ currentFocus = "textarea"
             THEN [successful |-> successful,
                   thrown |-> browser.focus = "throws",
                   focus |-> IF browser.focus = "throws" THEN "textarea"
                             ELSE currentFocus,
                   copied |-> successful]
             ELSE [successful |-> successful, thrown |-> FALSE,
                   focus |-> "textarea", copied |-> successful]

\* Variant: no catch clause, the error leaves copy().
CatchBlock_Rethrow(thrown) == thrown

\* The catch clause discards the error: whether copy() still throws.
CatchBlock(thrown) == FALSE

NoCopy == [called |-> FALSE, hadTextarea |-> FALSE,
           browser |-> [select |-> "ok", execCommand |-> "false", focus |-> "ok"],
           threw |-> FALSE, returned |-> FALSE]

\* copy()
Copy(browser) ==
  /\ copyCount < MaxCopies
  /\ copyCount' = copyCount + 1
  /\ LET try == TryBlock(textarea, activeElement, browser)
     IN /\ activeElement' = try.focus
        /\ clipboard' = IF try.copied THEN textarea.value ELSE clipboard
        /\ lastCopy' = [called |-> TRUE, hadTextarea |-> textarea.defined,
                        browser |-> browser,
                        threw |-> CatchBlock(try.thrown),
                        returned |-> try.successful]
  /\ UNCHANGED textarea
  /\ UNCHANGED nonCopyVars

\* destroy()
DestroyCopy ==
  /\ textarea.defined
  /\ textarea' = NoTextarea
  /\ activeElement' = IF activeElement = "textarea" /\ textarea.inBody
                      THEN "none" ELSE activeElement
  /\ UNCHANGED << clipboard, copyCount, lastCopy >>
  /\ UNCHANGED nonCopyVars

\* The page moves the focus between two calls.
Focus(target) ==
  /\ target # activeElement
  /\ target = "textarea" => textarea.defined /\ textarea.inBody
  /\ activeElement' = target
  /\ UNCHANGED << textarea, clipboard, copyCount, lastCopy >>
  /\ UNCHANGED nonCopyVars

\* new PendingCopy(text, document): the textarea holds the text and is in
\* the body.
InitPendingCopy ==
  /\ textarea \in {[defined |-> TRUE, value |-> t, inBody |-> TRUE] : t \in Texts}
  /\ activeElement \in FocusTargets \ {"textarea"}
  /\ clipboard = "clipboard"
  /\ copyCount = 0
  /\ lastCopy = NoCopy

PendingCopyIdle ==
  /\ textarea = NoTextarea
  /\ activeElement = "none"
  /\ clipboard = "clipboard"
  /\ copyCount = 0
  /\ lastCopy = NoCopy

\* ------------------------------------------------------------------------
\* TestbedHarnessEnvironment
\* ------------------------------------------------------------------------
Environments == 1..NumEnvironments

DestroyedError == "Harness is attempting to use a fixture that has already been destroyed."

NoEnvironment == [constructed |-> FALSE, destroyed |-> FALSE, lateCreated |-> FALSE]

\* _fixture.componentRef.onDestroy(cb): the componentRef keeps the callback
\* for its destruction; one that is already destroyed never runs it.
OnDestroy(cbs, e) == IF fixtureDestroyed THEN cbs ELSE cbs \cup {e}

\* The constructor (loader, documentRootLoader, harnessForFixture,
\* createEnvironment): _destroyed = false, and the callback is registered.
\* lateCreated records that the fixture was already destroyed.
NewEnvironment(e) ==
  /\ ~environments[e].constructed
  /\ environments' = [environments EXCEPT
                        ![e] = [constructed |-> TRUE, destroyed |-> FALSE,
                                lateCreated |-> fixtureDestroyed]]
  /\ destroyCbs' = OnDestroy(destroyCbs, e)
  /\ UNCHANGED << fixtureDestroyed, harnessCalls >>
  /\ UNCHANGED nonHarnessVars

\* The fixture is destroyed: its componentRef runs the callbacks it holds,
\* each sets _destroyed of its environment.
DestroyFixture ==
  /\ ~fixtureDestroyed
  /\ fixtureDestroyed' = TRUE
  /\ environments' = [e \in Environments |->
                        IF e \in destroyCbs
                        THEN [environments[e] EXCEPT !.destroyed = TRUE]
                        ELSE environments[e]]
  /\ destroyCbs' = {}
  /\ UNCHANGED harnessCalls
  /\ UNCHANGED nonHarnessVars

\* Variant: no test of _destroyed.
IsDestroyed_Never(env) == FALSE

\* if (this._destroyed)
IsDestroyed(env) == env.destroyed

\* forceStabilize() up to its await, called directly or as the first
\* statement of getAllRawElements(): what it calls on the fixture and how
\* the call stands.
ForceStabilize(env) ==
  IF IsDestroyed(env)
  THEN [log |-> << >>, outcome |-> "rejected", error |-> DestroyedError]
  ELSE [log |-> << "detectChanges", "whenStable" >>, outcome |-> "pending",
        error |-> ""]

\* A call of forceStabilize() or getAllRawElements() on environment e.
CallHarness(e, op) ==
  /\ environments[e].constructed
  /\ Len(harnessCalls) < MaxHarnessCalls
  /\ LET started == ForceStabilize(environments[e])
     IN harnessCalls' =
          Append(harnessCalls,
                 [env |-> e, op |-> op,
                  fixtureDestroyed |-> fixtureDestroyed,
                  lateCreated |-> environments[e].lateCreated,
                  log |-> started.log, outcome |-> started.outcome,
                  error |-> started.error])
  /\ UNCHANGED << fixtureDestroyed, destroyCbs, environments >>
  /\ UNCHANGED nonHarnessVars

\* fixture.whenStable() of call i resolves: forceStabilize() resolves, and
\* getAllRawElements() runs the query function and resolves.
WhenStable(i) ==
  /\ i \in 1..Len(harnessCalls)
  /\ harnessCalls[i].outcome = "pending"
  /\ harnessCalls' =
       [harnessCalls EXCEPT
          ![i].outcome = "resolved",
          ![i].log = IF harnessCalls[i].op = "getAllRawElements"
                     THEN Append(@, "queryFn") ELSE @]
  /\ UNCHANGED << fixtureDestroyed, destroyCbs, environments >>
  /\ UNCHANGED nonHarnessVars

HarnessIdle ==
  /\ fixtureDestroyed = FALSE
  /\ destroyCbs = {}
  /\ environments = [e \in Environments |-> NoEnvironment]
  /\ harnessCalls = << >>

\* ------------------------------------------------------------------------
\* Release output validations
\* ------------------------------------------------------------------------
packageJsonPathFields ==
  << "main", "module", "typings", "es2015", "fesm5", "fesm2015", "esm5", "esm2015" >>

\* What a field of package.json holds: nothing, the empty string, the path
\* of a file that exists, the path of a file that does not.
FieldValues == {"undefined", "empty", "existing", "missing"}

PackageJsons == [{packageJsonPathFields[i] : i \in 1..Len(packageJsonPathFields)}
                   -> FieldValues]

Failure(msg, name) == [msg |-> msg, name |-> name]

\* !parsed[fieldName]
FieldIsFalsy(value) == value = "undefined" \/ value = "empty"

\* join(packageJsonDir, parsed[fieldName]): a TypeError for an argument
\* that is not a string, else the path; the empty string gives the
\* directory itself.
JoinThrows(value) == value = "undefined"

\* existsSync(resolvedPath)
ExistsSync(value) == value = "existing" \/ value = "empty"

\* The callback of packageJsonPathFields.forEach for the fields from i on:
\* the failures pushed, and whether an error ended the loop.
RECURSIVE FieldLoop(_, _, _)
FieldLoop(json, i, failures) ==
  IF i > Len(packageJsonPathFields)
  THEN [thrown |-> FALSE, failures |-> failures]
  ELSE LET fieldName == packageJsonPathFields[i]
           afterMissing ==
             IF FieldIsFalsy(json[fieldName])
             THEN Append(failures, Failure("Missing field", fieldName))
             ELSE failures
       IN IF JoinThrows(json[fieldName])
          THEN [thrown |-> TRUE, failures |-> afterMissing]
          ELSE FieldLoop(json, i + 1,
                 IF ~ExistsSync(json[fieldName])
                 THEN Append(afterMissing,
                             Failure("File referenced in field does not exist.",
                                     fieldName))
                 ELSE afterMissing)

NoFileResult == [called |-> FALSE, thrown |-> FALSE, failures |-> << >>]

\* checkPackageJsonFile(filePath)
CheckPackageJsonFile ==
  /\ ~fileResult.called
  /\ LET loop == FieldLoop(parsed, 1, << >>)
     IN fileResult' = [called |-> TRUE, thrown |-> loop.thrown,
                       failures |-> IF loop.thrown THEN << >> ELSE loop.failures]
  /\ UNCHANGED << parsed, ngUpdate, targetVersion, migrationResult >>
  /\ UNCHANGED nonReleaseVars

\* Versions: major.minor.patch with a prerelease rank: 0 is the prerelease
\* "-0", 1 a later prerelease such as "-rc.0", 2 no prerelease.
SemVer(major, minor, patch, pre) ==
  [kind |-> "valid", major |-> major, minor |-> minor, patch |-> patch, pre |-> pre]
NoVersion == [kind |-> "none", major |-> 0, minor |-> 0, patch |-> 0, pre |-> 0]
InvalidVersion == [kind |-> "invalid", major |-> 0, minor |-> 0, patch |-> 0, pre |-> 0]

SchematicVersions ==
  {SemVer(major, minor, 0, pre) : major \in {8, 9, 10}, minor \in {0, 1}, pre \in {0, 1, 2}}
    \cup {NoVersion, InvalidVersion}

TargetVersions == {SemVer(9, 0, 0, 2), SemVer(9, 1, 0, 2), SemVer(9, 0, 0, 1)}

\* semver.compare(a, b) < 0
SemverLt(a, b) ==
  \/ a.major < b.major
  \/ a.major = b.major /\ a.minor < b.minor
  \/ a.major = b.major /\ a.minor = b.minor /\ a.patch < b.patch
  \/ a.major = b.major /\ a.minor = b.minor /\ a.patch = b.patch /\ a.pre < b.pre

\* semver.gte and semver.lte; both throw for a version they cannot parse.
SemverGte(a, b) == ~SemverLt(a, b)
SemverLte(a, b) == ~SemverLt(b, a)
SemverThrows(version) == version.kind = "invalid"

\* Variant: the boundary is the release <major>.0.0.
LowerBoundaryVersion_Release(target) == SemVer(target.major, 0, 0, 2)

\* `${targetVersion.major}.0.0-0`
LowerBoundaryVersion(target) == SemVer(target.major, 0, 0, 0)

\* The filter callback: whether the schematic is kept.
IsTargetSchematic(schematicVersion, target) ==
  /\ schematicVersion.kind = "valid"
  /\ SemverGte(schematicVersion, LowerBoundaryVersion(target))
  /\ SemverLte(schematicVersion, target)

Indices(seq) == 1..Len(seq)

\* The failures the filter callback pushes, in the order of the keys.
RECURSIVE ParseFailures(_, _)
ParseFailures(schematics, i) ==
  IF i > Len(schematics) THEN << >>
  ELSE (IF SemverThrows(schematics[i])
        THEN << Failure("Could not parse version for migration", i) >>
        ELSE << >>) \o ParseFailures(schematics, i + 1)

\* checkMigrationCollection(collectionPath, packagePath, targetVersion)
CheckMigrationCollection(collection, target) ==
  IF ~collection.hasSchematics
  THEN << Failure("No schematics found in migration collection.", 0) >>
  ELSE LET targetSchematics ==
             {i \in Indices(collection.schematics) :
                IsTargetSchematic(collection.schematics[i], target)}
           failures == ParseFailures(collection.schematics, 1)
       IN IF Cardinality(targetSchematics) = 0
          THEN Append(failures,
                      Failure("No migration configured that handles versions", 0))
          ELSE IF Cardinality(targetSchematics) > 1
          THEN Append(failures,
                      Failure("Multiple migrations targeting the same major version", 0))
          ELSE failures

NoMigrationResult == [called |-> FALSE, checked |-> FALSE, failures |-> << >>]

\* checkPackageJsonMigrations(packageJsonPath, currentVersion)
CheckPackageJsonMigrations ==
  /\ ~migrationResult.called
  /\ migrationResult' =
       IF ngUpdate.migrations
       THEN [called |-> TRUE, checked |-> TRUE,
             failures |-> CheckMigrationCollection(ngUpdate.collection, targetVersion)]
       ELSE [called |-> TRUE, checked |-> FALSE, failures |-> << >>]
  /\ UNCHANGED << parsed, fileResult, ngUpdate, targetVersion >>
  /\ UNCHANGED nonReleaseVars

NoCollection == [hasSchematics |-> FALSE, schematics |-> << >>]

RECURSIVE VersionSeqs(_)
VersionSeqs(n) ==
  IF n = 0 THEN {<< >>}
  ELSE VersionSeqs(n - 1)
         \cup {Append(seq, v) : seq \in {x \in VersionSeqs(n - 1) : Len(x) = n - 1},
                                v \in SchematicVersions}

Collections ==
  {NoCollection}
    \cup {[hasSchematics |-> TRUE, schematics |-> seq] : seq \in VersionSeqs(NumSchematics)}

ReleaseIdle ==
  /\ parsed = [f \in {packageJsonPathFields[i] : i \in 1..Len(packageJsonPathFields)}
                 |-> "existing"]
  /\ fileResult = NoFileResult
  /\ ngUpdate = [migrations |-> FALSE, collection |-> NoCollection]
  /\ targetVersion = SemVer(9, 0, 0, 2)
  /\ migrationResult = NoMigrationResult

\* ------------------------------------------------------------------------
\* Resizable
\* ------------------------------------------------------------------------
\* Number.MAX_SAFE_INTEGER, 2^53 - 1 in the program; here the largest
\* integer of the model checker, above every width and size.
MAX_SAFE_INTEGER == 2147483647

Widths == -1..MaxWidth
Sizes == -1..(MaxWidth + 1)

Max2(a, b) == IF a >= b THEN a ELSE b
Min2(a, b) == IF a <= b THEN a ELSE b

\* Variant: no lower limit of 0.
SizeToApply_NoZero(sizeInPixels, min, max) == Min2(Max2(sizeInPixels, min), max)

\* Math.min(Math.max(sizeInPixels, this.minWidthPx, 0), this.maxWidthPx)
SizeToApply(sizeInPixels, min, max) ==
  Min2(Max2(Max2(sizeInPixels, min), 0), max)

NotApplied == [applied |-> FALSE, n |-> 0]
Applied(n) == [applied |-> TRUE, n |-> n]

NoResize == [applied |-> FALSE, size |-> 0, min |-> 0, max |-> 0]

\* set minWidthPx(value)
SetMinWidthPx(value) ==
  /\ ~resizableDestroyed
  /\ minWidthPxInternal' = value
  /\ resizeStrategy' = IF nativeElement
                       THEN [resizeStrategy EXCEPT !.min = Applied(value)]
                       ELSE resizeStrategy
  /\ UNCHANGED << nativeElement, maxWidthPxInternal, viewInitialized,
                  resizableDestroyed, overlayActive, lastResize >>
  /\ UNCHANGED nonResizableVars

\* set maxWidthPx(value)
SetMaxWidthPx(value) ==
  /\ ~resizableDestroyed
  /\ maxWidthPxInternal' = value
  /\ resizeStrategy' = IF nativeElement
                       THEN [resizeStrategy EXCEPT !.max = Applied(value)]
                       ELSE resizeStrategy
  /\ UNCHANGED << nativeElement, minWidthPxInternal, viewInitialized,
                  resizableDestroyed, overlayActive, lastResize >>
  /\ UNCHANGED nonResizableVars

\* ngAfterViewInit(): the events are listened to, the limits are applied.
ResizableAfterViewInit ==
  /\ nativeElement
  /\ ~viewInitialized
  /\ ~resizableDestroyed
  /\ viewInitialized' = TRUE
  /\ resizeStrategy' = [resizeStrategy EXCEPT
                          !.min = Applied(minWidthPxInternal),
                          !.max = Applied(maxWidthPxInternal)]
  /\ UNCHANGED << nativeElement, minWidthPxInternal, maxWidthPxInternal,
                  resizableDestroyed, overlayActive, lastResize >>
  /\ UNCHANGED nonResizableVars

\* resizeNotifier.triggerResize or resizeCanceled emits {columnId, size,
\* completeImmediately}.  For this column the size is applied; a canceled
\* or immediately completed resize is cleaned up after in the same turn.
ResizeEvent(source, ownColumn, size, completeImmediately) ==
  /\ viewInitialized
  /\ ~resizableDestroyed
  /\ IF ownColumn
     THEN /\ resizeStrategy' =
               [resizeStrategy EXCEPT
                  !.size = Applied(SizeToApply(size, minWidthPxInternal,
                                               maxWidthPxInternal))]
          /\ lastResize' = [applied |-> TRUE, size |-> size,
                            min |-> minWidthPxInternal,
                            max |-> maxWidthPxInternal]
          /\ overlayActive' = ~(completeImmediately \/ source = "resizeCanceled")
     ELSE /\ UNCHANGED << resizeStrategy, lastResize >>
          /\ overlayActive' = IF source = "resizeCanceled" THEN FALSE
                              ELSE overlayActive
  /\ UNCHANGED << nativeElement, minWidthPxInternal, maxWidthPxInternal,
                  viewInitialized, resizableDestroyed >>
  /\ UNCHANGED nonResizableVars

\* resizeNotifier.resizeCompleted emits: _cleanUpAfterResize.
ResizeCompleted ==
  /\ viewInitialized
  /\ ~resizableDestroyed
  /\ overlayActive
  /\ overlayActive' = FALSE
  /\ UNCHANGED << nativeElement, minWidthPxInternal, maxWidthPxInternal,
                  viewInitialized, resizableDestroyed, resizeStrategy,
                  lastResize >>
  /\ UNCHANGED nonResizableVars

\* ngOnDestroy()
ResizableDestroy ==
  /\ ~resizableDestroyed
  /\ resizableDestroyed' = TRUE
  /\ UNCHANGED << nativeElement, minWidthPxInternal, maxWidthPxInternal,
                  viewInitialized, overlayActive, resizeStrategy, lastResize >>
  /\ UNCHANGED nonResizableVars

\* The directive after construction.
InitResizableFields ==
  /\ minWidthPxInternal = 0
  /\ maxWidthPxInternal = MAX_SAFE_INTEGER
  /\ viewInitialized = FALSE
  /\ resizableDestroyed = FALSE
  /\ overlayActive = FALSE
  /\ resizeStrategy = [min |-> NotApplied, max |-> NotApplied, size |-> NotApplied]
  /\ lastResize = NoResize

ResizableIdle ==
  /\ nativeElement = FALSE
  /\ InitResizableFields

\* ------------------------------------------------------------------------
\* MapCircle
\* ------------------------------------------------------------------------
\* Centers: undefined or one of two positions.  Radii: undefined or a
\* number, 0 included.
CenterValues == {"undefined", "a", "b"}
RadiusValues == {Undefined} \cup {Num(n) : n \in 0..MaxRadius}

\* CircleOptions: the two properties the inputs also set.
CircleOptionsValues == [center : CenterValues, radius : RadiusValues]
EmptyOptions == [center |-> "undefined", radius |-> Undefined]

NoCircle == [exists |-> FALSE, center |-> "undefined", radius |-> Undefined]

\* The map function of _combineOptions()
CombineOptions(options, center, radius) ==
  [center |-> IF center # "undefined" THEN center ELSE options.center,
   radius |-> IF radius # Undefined THEN radius ELSE options.radius]

\* new google.maps.Circle(options)
NewCircle(options) ==
  [exists |-> TRUE, center |-> options.center, radius |-> options.radius]

\* circle.setOptions(options): the properties the options hold are set.
CircleSetOptions(c, options) ==
  [c EXCEPT !.center = IF options.center # "undefined" THEN options.center ELSE @,
            !.radius = IF options.radius # Undefined THEN options.radius ELSE @]

\* The subscriber of _watchForCenterChanges()
WatchCenter(c, center) ==
  IF center # "undefined" THEN [c EXCEPT !.center = center] ELSE c

\* The subscriber of _watchForRadiusChanges()
WatchRadius(c, radius) ==
  IF radius # Undefined THEN [c EXCEPT !.radius = radius] ELSE c

Watching == circlePhase = "initialized" /\ isBrowser

\* set options(options)
SetCircleOptions(options) ==
  /\ circleOptions' = options
  /\ circle' = IF Watching THEN CircleSetOptions(circle, options) ELSE circle
  /\ UNCHANGED << isBrowser, circleCenter, circleRadius, circlePhase >>
  /\ UNCHANGED nonCircleVars

\* set center(center)
SetCircleCenter(center) ==
  /\ circleCenter' = center
  /\ circle' = IF Watching THEN WatchCenter(circle, center) ELSE circle
  /\ UNCHANGED << isBrowser, circleOptions, circleRadius, circlePhase >>
  /\ UNCHANGED nonCircleVars

\* set radius(radius)
SetCircleRadius(radius) ==
  /\ circleRadius' = radius
  /\ circle' = IF Watching THEN WatchRadius(circle, radius) ELSE circle
  /\ UNCHANGED << isBrowser, circleOptions, circleCenter, circlePhase >>
  /\ UNCHANGED nonCircleVars

\* ngOnInit(): in a browser the circle is created from the combined
\* options, then the three subscriptions are made, and each subject emits
\* its current value to its new subscriber.
CircleNgOnInit ==
  /\ circlePhase = "constructed"
  /\ circlePhase' = "initialized"
  /\ circle' =
       IF isBrowser
       THEN WatchRadius(
              WatchCenter(
                CircleSetOptions(
                  NewCircle(CombineOptions(circleOptions, circleCenter, circleRadius)),
                  circleOptions),
                circleCenter),
              circleRadius)
       ELSE circle
  /\ UNCHANGED << isBrowser, circleOptions, circleCenter, circleRadius >>
  /\ UNCHANGED nonCircleVars

\* ngOnDestroy()
CircleNgOnDestroy ==
  /\ circlePhase # "destroyed"
  /\ circlePhase' = "destroyed"
  /\ UNCHANGED << isBrowser, circleOptions, circleCenter, circleRadius, circle >>
  /\ UNCHANGED nonCircleVars

\* The directive after construction.
InitCircleFields ==
  /\ circleOptions = EmptyOptions
  /\ circleCenter = "undefined"
  /\ circleRadius = Undefined
  /\ circle = NoCircle
  /\ circlePhase = "constructed"

CircleIdle ==
  /\ isBrowser = FALSE
  /\ InitCircleFields

\* ------------------------------------------------------------------------
\* Specifications
\* ------------------------------------------------------------------------
RECURSIVE SeqsUpTo(_, _)
SeqsUpTo(S, n) ==
  IF n = 0 THEN {<< >>}
  ELSE LET shorter == SeqsUpTo(S, n - 1)
       IN shorter \cup {Append(s, x) : s \in shorter, x \in S}

Workspaces ==
  {[found |-> FALSE, projects |-> << >>]}
    \cup {[found |-> TRUE, projects |-> ps] : ps \in SeqsUpTo(Projects, MaxProjects)}

InitLocals ==
  /\ projIdx = 1
  /\ isTestTarget = FALSE
  /\ analyzedFiles = {}
  /\ program = << >>
  /\ additionalStylesheetPaths = Missing
  /\ instances = NoInstances
  /\ migrations = {}
  /\ resolvedTemplates = << >>
  /\ resolvedStylesheets = << >>
  /\ visits = EmptyBag
  /\ calledOn = {}
  /\ done = {}
  /\ warned = 0
  /\ result = NoResult
  /\ hasFailures = FALSE
  /\ runPackageManager = FALSE
  /\ events = << >>
  /\ commitCount = 0
  /\ pendingEdits = {}
  /\ calls = 0

\* The dispatcher after construction.
InitDispatcher ==
  /\ attachedOverlays = << >>
  /\ isAttached = FALSE
  /\ bodyListeners = {}
  /\ opLog = << >>
  /\ detachCalls = << >>
  /\ lastClick = [n |-> 0, clientX |-> 0, clientY |-> 0]

\* One execution of the schematic rule.
Init ==
  /\ caller \in {"migration", "upgrade"}
  /\ workspace \in Workspaces
  /\ hasCallback \in BOOLEAN
  /\ pc = "start"
  /\ InitLocals
  /\ InitDispatcher
  /\ ProgressBarIdle
  /\ CommonModuleIdle
  /\ PendingCopyIdle
  /\ HarnessIdle
  /\ ReleaseIdle
  /\ ResizableIdle
  /\ CircleIdle

Next ==
  \/ RuleStart
  \/ ProjectLoop
  \/ BuildTarget
  \/ TestTarget
  \/ MigrateCreate
  \/ MigrateSourceFiles
  \/ MigrateTemplates
  \/ MigrateStylesheets
  \/ MigrateAdditionalStylesheets
  \/ MigratePostAnalysis
  \/ MigrateCollect
  \/ CommitEdits
  \/ Accumulate
  \/ GlobalPostMigration
  \/ AddTask
  \/ Complete

Spec == Init /\ [][Next]_vars

\* Direct calls of UpdateProject.migrate.
InitDirect ==
  /\ caller = "direct"
  /\ workspace = [found |-> FALSE, projects |-> << >>]
  /\ hasCallback = FALSE
  /\ pc = "idle"
  /\ InitLocals
  /\ InitDispatcher
  /\ ProgressBarIdle
  /\ CommonModuleIdle
  /\ PendingCopyIdle
  /\ HarnessIdle
  /\ ReleaseIdle
  /\ ResizableIdle
  /\ CircleIdle

NextDirect ==
  \/ DirectCall
  \/ MigrateCreate
  \/ MigrateSourceFiles
  \/ MigrateTemplates
  \/ MigrateStylesheets
  \/ MigrateAdditionalStylesheets
  \/ MigratePostAnalysis
  \/ MigrateCollect

SpecDirect == InitDirect /\ [][NextDirect]_vars

\* The migration runner at rest.
MigrationIdle ==
  /\ caller = "none"
  /\ workspace = [found |-> FALSE, projects |-> << >>]
  /\ hasCallback = FALSE
  /\ pc = "off"
  /\ InitLocals

\* Overlays being attached to and detached from one dispatcher.
InitOverlay ==
  /\ InitDispatcher
  /\ MigrationIdle
  /\ ProgressBarIdle
  /\ CommonModuleIdle
  /\ PendingCopyIdle
  /\ HarnessIdle
  /\ ReleaseIdle
  /\ ResizableIdle
  /\ CircleIdle

NextOverlay ==
  \/ \E overlayRef \in Overlays : Add(overlayRef)
  \/ \E overlayRef \in Overlays : Remove(overlayRef)
  \/ NgOnDestroy
  \/ \E x \in Coords, y \in Coords : Click(x, y)

SpecOverlay == InitOverlay /\ [][NextOverlay]_vars

\* One progress bar of either implementation, with or without animations.
InitProgressBarSpec ==
  /\ pbImpl \in {"standard", "mdc"}
  /\ pbNoop \in BOOLEAN
  /\ pbIsBrowser \in (IF pbImpl = "mdc" THEN BOOLEAN ELSE {TRUE})
  /\ pbDir \in (IF pbImpl = "mdc" THEN {"none", "ltr"} ELSE {"none"})
  /\ InitProgressBar
  /\ MigrationIdle
  /\ InitDispatcher
  /\ CommonModuleIdle
  /\ PendingCopyIdle
  /\ HarnessIdle
  /\ ReleaseIdle
  /\ ResizableIdle
  /\ CircleIdle

NextProgressBar ==
  \/ \E v \in InputValues : SetValue(v)
  \/ \E v \in InputValues : SetBufferValue(v)
  \/ \E m \in ProgressBarModes : SetMode(m)
  \/ NgAfterViewInit
  \/ \E onTarget \in BOOLEAN : TransitionEnd(onTarget)
  \/ DirChange
  \/ ProgressBarDestroy

SpecProgressBar == InitProgressBarSpec /\ [][NextProgressBar]_vars

\* One MatCommonModule being constructed in some environment.
InitSanity ==
  /\ sanityChecks \in SanityChecksValues
  /\ devMode \in BOOLEAN
  /\ window \in [karma : BOOLEAN, jasmine : BOOLEAN]
  /\ document \in Documents
  /\ versionsMatch \in BOOLEAN
  /\ InitCommonModule
  /\ MigrationIdle
  /\ InitDispatcher
  /\ ProgressBarIdle
  /\ PendingCopyIdle
  /\ HarnessIdle
  /\ ReleaseIdle
  /\ ResizableIdle
  /\ CircleIdle

NextSanity == ConstructCommonModule

SpecSanity == InitSanity /\ [][NextSanity]_vars

\* One pending copy: calls of copy() in a browser that behaves in any way,
\* focus changes, destroy().
InitCopy ==
  /\ InitPendingCopy
  /\ MigrationIdle
  /\ InitDispatcher
  /\ ProgressBarIdle
  /\ CommonModuleIdle
  /\ HarnessIdle
  /\ ReleaseIdle
  /\ ResizableIdle
  /\ CircleIdle

NextCopy ==
  \/ \E browser \in BrowserBehaviours : Copy(browser)
  \/ DestroyCopy
  \/ \E target \in FocusTargets : Focus(target)

SpecCopy == InitCopy /\ [][NextCopy]_vars

\* One fixture: environments are created for it, it is destroyed, harnesses
\* stabilize and query.
InitHarness ==
  /\ HarnessIdle
  /\ MigrationIdle
  /\ InitDispatcher
  /\ ProgressBarIdle
  /\ CommonModuleIdle
  /\ PendingCopyIdle
  /\ ReleaseIdle
  /\ ResizableIdle
  /\ CircleIdle

NextHarness ==
  \/ \E e \in Environments : NewEnvironment(e)
  \/ DestroyFixture
  \/ \E e \in Environments, op \in {"forceStabilize", "getAllRawElements"} :
       CallHarness(e, op)
  \/ \E i \in 1..MaxHarnessCalls : WhenStable(i)

SpecHarness == InitHarness /\ [][NextHarness]_vars

OthersIdle ==
  /\ MigrationIdle
  /\ InitDispatcher
  /\ ProgressBarIdle
  /\ CommonModuleIdle
  /\ PendingCopyIdle
  /\ HarnessIdle

\* checkPackageJsonFile applied to any package.json.
InitPackageJson ==
  /\ parsed \in PackageJsons
  /\ fileResult = NoFileResult
  /\ ngUpdate = [migrations |-> FALSE, collection |-> NoCollection]
  /\ targetVersion = SemVer(9, 0, 0, 2)
  /\ migrationResult = NoMigrationResult
  /\ OthersIdle
  /\ ResizableIdle
  /\ CircleIdle

NextPackageJson == CheckPackageJsonFile

SpecPackageJson == InitPackageJson /\ [][NextPackageJson]_vars

\* checkPackageJsonMigrations applied to any package.json, migration
\* collection and target version.
InitCollection ==
  /\ parsed = [f \in {packageJsonPathFields[i] : i \in 1..Len(packageJsonPathFields)}
                 |-> "existing"]
  /\ fileResult = NoFileResult
  /\ ngUpdate \in {[migrations |-> FALSE, collection |-> NoCollection]}
                    \cup {[migrations |-> TRUE, collection |-> c] : c \in Collections}
  /\ targetVersion \in TargetVersions
  /\ migrationResult = NoMigrationResult
  /\ OthersIdle
  /\ ResizableIdle
  /\ CircleIdle

NextCollection == CheckPackageJsonMigrations

SpecCollection == InitCollection /\ [][NextCollection]_vars

\* One resizable column header: limits are set, resizes are requested.
InitResizable ==
  /\ nativeElement \in BOOLEAN
  /\ InitResizableFields
  /\ OthersIdle
  /\ ReleaseIdle
  /\ CircleIdle

NextResizable ==
  \/ \E value \in Widths : SetMinWidthPx(value)
  \/ \E value \in Widths : SetMaxWidthPx(value)
  \/ ResizableAfterViewInit
  \/ \E source \in {"triggerResize", "resizeCanceled"}, ownColumn \in BOOLEAN,
        size \in Sizes, completeImmediately \in BOOLEAN :
       ResizeEvent(source, ownColumn, size, completeImmediately)
  \/ ResizeCompleted
  \/ ResizableDestroy

SpecResizable == InitResizable /\ [][NextResizable]_vars

\* One map circle, in a browser or not.
InitCircle ==
  /\ isBrowser \in BOOLEAN
  /\ InitCircleFields
  /\ OthersIdle
  /\ ReleaseIdle
  /\ ResizableIdle

NextCircle ==
  \/ \E options \in CircleOptionsValues : SetCircleOptions(options)
  \/ \E center \in CenterValues : SetCircleCenter(center)
  \/ \E radius \in RadiusValues : SetCircleRadius(radius)
  \/ CircleNgOnInit
  \/ CircleNgOnDestroy

SpecCircle == InitCircle /\ [][NextCircle]_vars

\* ------------------------------------------------------------------------
\* Properties of UpdateProject.migrate
\* ------------------------------------------------------------------------
Range(seq) == {seq[i] : i \in DOMAIN seq}

SourceFileNames == UNION {Range(GetSourceFiles(t)) : t \in Tsconfigs}

Visited(kind, resolvedPath, inline) == CopiesIn(<<kind, resolvedPath, inline>>, visits)

EventCount(ev) == Cardinality({i \in DOMAIN events : events[i].ev = ev})

C1_Inv ==
  /\ \A e \in BagToSet(visits) :
       e[1] = "node" => /\ CopiesIn(e, visits) <= 1
                        /\ e[2] \in analyzedFiles
  /\ \A f \in SourceFileNames :
       IsDeclarationFile(f) \/ IsSourceFileFromExternalLibrary(f)
         => Visited("node", Resolve(f), FALSE) = 0

C1_Step ==
  \A f \in SourceFileNames :
    Resolve(f) \in analyzedFiles =>
      Visited("node", Resolve(f), FALSE)' = Visited("node", Resolve(f), FALSE)

\* C1: over all migrate calls that share analyzedFiles, a source file is
\* visited at most once, a visited file's resolved path is in the set, a
\* file whose resolved path is in the set is not visited again, and
\* declaration files and files of external libraries are never visited.
C1_SourceFilesVisitedOnce == [](C1_Inv) /\ [][C1_Step]_vars

\* A second run whose program holds only files analyzed before: its source
\* file loop visited nothing and resolved no resource.
C1_Witness ==
  /\ EventCount("run") >= 2
  /\ pc = "templates"
  /\ resolvedTemplates = << >>
  /\ \E i \in DOMAIN program :
       /\ IsMigratedSourceFile(program[i])
       /\ Visited("node", Resolve(program[i]), FALSE) = 1

\* C2: over all migrate calls that share analyzedFiles, an external
\* template is passed to visitTemplate at most once and an external
\* stylesheet (a component's or an additional one) to visitStylesheet at
\* most once.
C2_ResourcesVisitedOnce ==
  \A e \in BagToSet(visits) :
    e[1] \in {"template", "stylesheet"} /\ ~e[3] => CopiesIn(e, visits) <= 1

\* A template two components reference and a stylesheet that is both a
\* component resource and an additional stylesheet were each visited once.
C2_Witness ==
  /\ pc = "postAnalysis"
  /\ Visited("template", "/w/src/app.html", FALSE) = 1
  /\ Visited("stylesheet", "/w/src/styles.css", FALSE) = 1
  /\ External("/w/src/styles.css") \in Range(resolvedStylesheets)
  /\ Cardinality({i \in DOMAIN resolvedTemplates :
                    resolvedTemplates[i] = External("/w/src/app.html")}) >= 2
  /\ additionalStylesheetPaths.defined
  /\ "/w/src/styles.css" \in Range(additionalStylesheetPaths.paths)

MigrateStatements == {"create", "sources", "templates", "stylesheets",
                      "additional", "postAnalysis", "collect"}

C3_Step ==
  /\ commitCount' # commitCount =>
       /\ MigrateStatements \subseteq done
       /\ result.returned
  /\ "commit" \in done /\ "commit" \in done' =>
       /\ visits' = visits
       /\ calledOn' \subseteq calledOn

\* C3: commitEdits is called only when migrate has created the migrations,
\* visited the source files, templates, stylesheets and additional
\* stylesheets of the program, run postAnalysis and returned; after the
\* commit nothing of that program is visited.
C3_CommitAfterMigrate == [][C3_Step]_vars

\* Edits of a program that was visited have been committed.
C3_Witness ==
  /\ pc = "accumulate"
  /\ commitCount >= 1
  /\ "commit" \in done
  /\ BagCardinality(visits) >= 1

\* Number of targets with a tsconfig over the projects of the workspace.
RECURSIVE NumTargets(_, _)
NumTargets(projects, i) ==
  IF i > Len(projects) THEN 0
  ELSE (IF projects[i].build # NULL THEN 1 ELSE 0)
         + (IF projects[i].test # NULL THEN 1 ELSE 0)
         + NumTargets(projects, i + 1)

BetweenRuns == pc \in {"project", "build", "test", "post", "task", "complete", "done"}

\* C4 as stated: commitEdits runs exactly once, when the migrations of
\* every project target have run.
C4_CommitOnce ==
  caller = "migration" /\ commitCount >= 1 =>
    /\ commitCount = 1
    /\ EventCount("run") = NumTargets(workspace.projects, 1)

\* C4 amended: commitEdits runs once per migrated project target, after
\* that target's migrate call and before the next target starts; between
\* runs no recorded edit is uncommitted, and when the rule is done it has
\* run once for every target that has a tsconfig.
C4_CommitPerTarget ==
  caller = "migration" =>
    /\ commitCount <= EventCount("run")
    /\ EventCount("run") <= commitCount + 1
    /\ BetweenRuns => commitCount = EventCount("run") /\ pendingEdits = {}
    /\ pc = "create" => pendingEdits = {}
    /\ pc = "done" /\ workspace.found =>
         commitCount = NumTargets(workspace.projects, 1)

\* A finished rule that migrated, and committed, more than one target.
C4_Witness ==
  /\ caller = "migration"
  /\ pc = "done"
  /\ commitCount >= 2
  /\ BagCardinality(visits) >= 1

\* C5: a migrate call without additionalStylesheetPaths does not throw.
C5_NoThrowWithoutAdditional ==
  ~additionalStylesheetPaths.defined => pc # "thrown"

\* The failures of the enabled instances, summed in the order of the list.
RECURSIVE EnabledFailures(_, _)
EnabledFailures(inst, m) ==
  IF m > NumMigrations THEN 0
  ELSE (IF inst[m].enabled THEN inst[m].failures ELSE 0) + EnabledFailures(inst, m + 1)

C6_Inv ==
  \A c \in calledOn : instances[c[2]].enabled

C6_Step ==
  pc = "collect" /\ pc' # "collect" =>
    /\ result'.returned
    /\ result'.hasFailures <=>
         \E m \in Migrations : instances[m].enabled /\ instances[m].failures > 0
    /\ warned' - warned = EnabledFailures(instances, 1)

\* C6: migrate returns hasFailures = true exactly when an enabled migration
\* recorded a failure and logs one warning per such failure; no visit
\* method and no postAnalysis is called on a migration that is not enabled,
\* and its failures are not counted.
C6_FailuresOfEnabledMigrations == [](C6_Inv) /\ [][C6_Step]_vars

\* migrate returned with failures after logging two warnings.
C6_Witness ==
  /\ pc = "commit"
  /\ result.returned
  /\ result.hasFailures
  /\ warned = 2

\* ------------------------------------------------------------------------
\* Properties of the schematic rules
\* ------------------------------------------------------------------------
\* C7: without a workspace configuration the rule logs the error and
\* stops: no project is migrated, no globalPostMigration is called, no
\* task is scheduled and the completion callback is not invoked.
C7_NoWorkspaceStops ==
  ~workspace.found =>
    /\ pc \in {"start", "done"}
    /\ pc = "start" => events = << >>
    /\ pc = "done" => events = << Log("errorNoWorkspace") >>
    /\ commitCount = 0
    /\ visits = EmptyBag
    /\ ~runPackageManager

C7_Witness ==
  /\ ~workspace.found
  /\ pc = "done"
  /\ events = << Log("errorNoWorkspace") >>

\* What the loop over the projects is to do, per project in order: the
\* warning for a project without tsconfig, else the build run and then the
\* test run, each if its tsconfig exists.
RECURSIVE ExpectedRuns(_, _)
ExpectedRuns(projects, i) ==
  IF i > Len(projects) THEN << >>
  ELSE (IF projects[i].build = NULL /\ projects[i].test = NULL
        THEN << Ev("warnNoTsconfig", i, FALSE, FALSE) >>
        ELSE (IF projects[i].build # NULL THEN << Ev("run", i, FALSE, FALSE) >> ELSE << >>)
               \o (IF projects[i].test # NULL THEN << Ev("run", i, TRUE, FALSE) >> ELSE << >>))
         \o ExpectedRuns(projects, i + 1)

IsLoopEvent(e) == e.ev \in {"run", "warnNoTsconfig"}

AfterLoop == pc \in {"post", "task", "complete", "done"}

\* C8: a project without build and test tsconfig is skipped with a warning
\* and the loop goes on: every other project is migrated, build target
\* before test target, each target exactly if its tsconfig exists.
C8_ProjectsWithoutTsconfigSkipped ==
  workspace.found /\ AfterLoop =>
    SelectSeq(events, IsLoopEvent) = ExpectedRuns(workspace.projects, 1)

\* A project without tsconfig came first, and the project after it was
\* migrated for both targets.
C8_Witness ==
  /\ pc = "done"
  /\ Len(workspace.projects) = 2
  /\ workspace.projects[1].build = NULL /\ workspace.projects[1].test = NULL
  /\ workspace.projects[2].build # NULL /\ workspace.projects[2].test # NULL
  /\ EventCount("run") = 2

CallbackEvents == {"info", "warnIssues"}

\* C9: with a workspace the completion callback, if one was passed, is
\* called exactly once and only as the last step of the rule, with
\* hasFailures = true exactly when some run reported failures; it logs the
\* warning about issues exactly when hasFailures is true.
C9_CompletionCallback ==
  /\ pc # "done" => EventCount("complete") = 0
  /\ pc = "done" /\ workspace.found /\ hasCallback =>
       /\ EventCount("complete") = 1
       /\ \A i \in DOMAIN events :
            events[i].ev = "complete" =>
              /\ \A j \in DOMAIN events :
                   j > i <=> events[j].ev \in CallbackEvents
              /\ events[i].fail <=>
                   \E j \in DOMAIN events :
                     events[j].ev = "result" /\ events[j].fail
              /\ EventCount("warnIssues") = IF events[i].fail THEN 1 ELSE 0
  /\ pc = "done" /\ ~hasCallback => EventCount("complete") = 0

\* The callback was told of failures although a later run had none, after
\* a globalPostMigration call and a scheduled install task.
C9_Witness ==
  /\ pc = "done"
  /\ hasCallback
  /\ \E i, j \in DOMAIN events :
       /\ i < j
       /\ events[i].ev = "result" /\ events[i].fail
       /\ events[j].ev = "result" /\ ~events[j].fail
  /\ EventCount("globalPostMigration") >= 1
  /\ EventCount("addTask") = 1
  /\ EventCount("warnIssues") = 1

\* ------------------------------------------------------------------------
\* Properties of OverlayMouseClickDispatcher
\* ------------------------------------------------------------------------
\* Position in opLog of the latest call for an overlay; 0 if there is none.
LatestOp(overlayRef) ==
  LET at == {i \in DOMAIN opLog : opLog[i].overlay = overlayRef}
  IN IF at = {} THEN 0 ELSE CHOOSE i \in at : \A j \in at : j <= i

LatestWasAdd(overlayRef) ==
  LatestOp(overlayRef) > 0 /\ opLog[LatestOp(overlayRef)].op = "add"

\* C10: _attachedOverlays holds exactly the overlays whose latest call was
\* add, each once, ordered by the time of that add, oldest first.
C10_TrackedInAttachOrder ==
  /\ Range(attachedOverlays) = {o \in Overlays : LatestWasAdd(o)}
  /\ Len(attachedOverlays) = Cardinality({o \in Overlays : LatestWasAdd(o)})
  /\ \A i, j \in DOMAIN attachedOverlays :
       i < j => LatestOp(attachedOverlays[i]) < LatestOp(attachedOverlays[j])

\* Two overlays were added, the first was removed and added again: it is
\* now the last one.
C10_Witness ==
  /\ opLog = << [op |-> "add", overlay |-> 1], [op |-> "add", overlay |-> 2],
                [op |-> "remove", overlay |-> 1], [op |-> "add", overlay |-> 1] >>
  /\ attachedOverlays = << 2, 1 >>

\* C11: no overlay occurs twice in _attachedOverlays, whatever add and
\* remove calls were made.
C11_NoDuplicateOverlays ==
  \A i, j \in DOMAIN attachedOverlays :
    i # j => attachedOverlays[i] # attachedOverlays[j]

\* An overlay that was tracked was added again, with no remove between.
C11_Witness ==
  /\ \E i, j \in DOMAIN opLog :
       /\ i < j
       /\ opLog[i].op = "add" /\ opLog[j].op = "add"
       /\ opLog[i].overlay = opLog[j].overlay
       /\ \A k \in DOMAIN opLog : opLog[k].op = "add"
  /\ Len(attachedOverlays) = 2

LatestCall == opLog'[Len(opLog')]

C12_Step(type, capture) ==
  /\ opLog' # opLog /\ LatestCall.op = "add" =>
       Listener(type, capture) \in bodyListeners'
  /\ opLog' # opLog /\ LatestCall.op = "remove" /\ attachedOverlays' = << >> =>
       \A l \in bodyListeners' : l.type # type

TopOverlay == attachedOverlays[Len(attachedOverlays)]

Outside(event, rect) ==
  \/ event.clientX < rect.left \/ event.clientX > rect.right
  \/ event.clientY < rect.top \/ event.clientY > rect.bottom

\* C13: a click outside the rectangle of the most recently attached
\* overlay detaches that overlay if its config has detachOnOutsideClick; a
\* click inside its rectangle detaches nothing.
C13_OutsideClickDetaches ==
  [][lastClick'.n = lastClick.n + 1 /\ attachedOverlays # << >> =>
       /\ Outside(lastClick', OverlayRect(TopOverlay)) /\ DetachOnOutsideClick(TopOverlay)
            => TopOverlay \in Range(detachCalls')
       /\ ~Outside(lastClick', OverlayRect(TopOverlay)) => detachCalls' = detachCalls]_vars
\* ------------------------------------------------------------------------
\* MatProgressBar
\* ------------------------------------------------------------------------
\* What an assigned input has to be stored as: 0 for what is falsy or below
\* 0, 100 for what is above 100, the number itself otherwise.
StoredFor(input) ==
  IF input.t # "number" THEN 0
  ELSE IF input.n < 0 THEN 0
  ELSE IF input.n > 100 THEN 100
  ELSE input.n

InRange(stored) == stored.t = "number" /\ 0 <= stored.n /\ stored.n <= 100

\* C14: value and bufferValue of either MatProgressBar are stored as a
\* number in [0, 100]: an input below 0 is stored as 0, an input above 100
\* as 100, a falsy input (undefined, null, NaN, 0) as 0.
C14_ValuesClamped ==
  /\ InRange(pbValue)
  /\ InRange(pbBufferValue)
  /\ pbValue = Num(StoredFor(pbValueInput))
  /\ pbBufferValue = Num(StoredFor(pbBufferInput))

C14_Witness ==
  /\ pbValueInput = Num(100 + Margin)
  /\ pbValue = Num(100)
  /\ pbBufferInput = NaN
  /\ pbBufferValue = Num(0)

\* C15: animationEnd is not emitted when animations are disabled, and not
\* in indeterminate or query mode; it is emitted, carrying the current
\* value, only in determinate or buffer mode when the primary bar's
\* transition ends.
C15_Step ==
  pbEmitCount' # pbEmitCount =>
    /\ ~pbNoop
    /\ EmitsIn(pbMode)
    /\ pbLastEmitted'.by = "transitionend"
    /\ pbLastEmitted'.value = pbValue'

C15_AnimationEndOnlyOnTransition == [][C15_Step]_vars

\* ------------------------------------------------------------------------
\* MatCommonModule
\* ------------------------------------------------------------------------
\* C16: in dev mode and outside a test environment the sanity checks follow
\* the configured value: true enables the doctype, theme and version checks,
\* false disables all three, a granular object enables each check exactly
\* when its flag is true.
C16_ChecksFollowConfiguration ==
  (hasDoneGlobalChecks /\ devMode /\ ~IsTestEnv(window)) =>
    /\ IsTrue(sanityChecks) =>
         checksRun = [doctype |-> TRUE, theme |-> TRUE, version |-> TRUE]
    /\ IsFalse(sanityChecks) => checksRun = NoChecksRun
    /\ sanityChecks.kind = "granular" =>
         checksRun = [doctype |-> sanityChecks.doctype,
                      theme |-> sanityChecks.theme,
                      version |-> sanityChecks.version]

\* ------------------------------------------------------------------------
\* PendingCopy
\* ------------------------------------------------------------------------
\* C17: copy() never throws; it returns true only when execCommand('copy')
\* returned true, and false when execCommand returned false or when
\* selecting the text or execCommand threw.
C17_CopyNeverThrows ==
  lastCopy.called =>
    /\ ~lastCopy.threw
    /\ lastCopy.returned =>
         /\ lastCopy.browser.select = "ok"
         /\ lastCopy.browser.execCommand = "true"
    /\ ( \/ lastCopy.browser.execCommand = "false"
         \/ lastCopy.browser.execCommand = "throws"
         \/ lastCopy.browser.select = "throws" ) => ~lastCopy.returned

C17_Witness ==
  /\ lastCopy.called
  /\ lastCopy.hadTextarea
  /\ lastCopy.browser.execCommand = "throws"
  /\ ~lastCopy.returned
  /\ copyCount = MaxCopies
  /\ clipboard = "text"

\* ------------------------------------------------------------------------
\* TestbedHarnessEnvironment
\* ------------------------------------------------------------------------
HarnessCallIndices == 1..Len(harnessCalls)

Rejected(call) ==
  /\ call.outcome = "rejected"
  /\ call.error = DestroyedError
  /\ call.log = << >>

Stabilizes(call) ==
  /\ call.outcome \in {"pending", "resolved"}
  /\ Len(call.log) >= 2
  /\ call.log[1] = "detectChanges"
  /\ call.log[2] = "whenStable"

PathFields == {packageJsonPathFields[i] : i \in 1..Len(packageJsonPathFields)}

\* C19: checkPackageJsonFile does not throw; it returns 'Missing field:
\* <name>' for each absent mandatory field, and for a present field
\* 'File referenced in "<name>" field does not exist.' exactly when the
\* referenced file does not exist.
C19_FailuresInsteadOfThrowing ==
  fileResult.called =>
    /\ ~fileResult.thrown
    /\ \A f \in PathFields :
         /\ parsed[f] = "undefined" =>
              Failure("Missing field", f) \in Range(fileResult.failures)
         /\ parsed[f] \in {"existing", "missing"} =>
              (Failure("File referenced in field does not exist.", f)
                 \in Range(fileResult.failures)
               <=> parsed[f] = "missing")

Schematics == ngUpdate.collection.schematics

\* Number of schematics with a version v, <major>.0.0-0 <= v <= target.
InRangeCount ==
  Cardinality({i \in Indices(Schematics) :
                 /\ Schematics[i].kind = "valid"
                 /\ ~SemverLt(Schematics[i], SemVer(targetVersion.major, 0, 0, 0))
                 /\ ~SemverLt(targetVersion, Schematics[i])})

Unparsable == {i \in Indices(Schematics) : Schematics[i].kind = "invalid"}

Reported == Range(migrationResult.failures)

C20_Reports ==
  /\ ngUpdate.collection.hasSchematics =>
       /\ Failure("No migration configured that handles versions", 0) \in Reported
            <=> InRangeCount = 0
       /\ Failure("Multiple migrations targeting the same major version", 0) \in Reported
            <=> InRangeCount > 1
       /\ \A i \in Indices(Schematics) :
            Failure("Could not parse version for migration", i) \in Reported
              <=> i \in Unparsable
  /\ ~ngUpdate.collection.hasSchematics =>
       migrationResult.failures =
         << Failure("No schematics found in migration collection.", 0) >>

\* C20 as stated: no failure exactly when the collection has schematics and
\* exactly one of them is in the range; the other cases report as listed.
C20_NoFailureIffOneInRange ==
  migrationResult.checked =>
    /\ migrationResult.failures = << >>
         <=> (ngUpdate.collection.hasSchematics /\ InRangeCount = 1)
    /\ C20_Reports

\* C20, amended: no failure exactly when the collection has schematics,
\* exactly one of them is in the range and none has a version that cannot
\* be parsed; the other cases report as listed.
C20_NoFailureIffOneInRangeAndAllParse ==
  migrationResult.checked =>
    /\ migrationResult.failures = << >>
         <=> (ngUpdate.collection.hasSchematics /\ InRangeCount = 1 /\ Unparsable = {})
    /\ C20_Reports

C20_Witness ==
  /\ migrationResult.checked
  /\ targetVersion = SemVer(9, 0, 0, 2)
  /\ Schematics = << SemVer(9, 0, 0, 1), SemVer(8, 1, 0, 2) >>
  /\ migrationResult.failures = << >>

\* ------------------------------------------------------------------------
\* Resizable
\* ------------------------------------------------------------------------
\* What min(max(s, minWidthPx, 0), maxWidthPx) comes to, case by case.
ClampedSize(size, min, max) ==
  LET lower == IF min > 0 THEN min ELSE 0
  IN IF lower > max THEN max
     ELSE IF size < lower THEN lower
     ELSE IF size > max THEN max
     ELSE size

\* C21: the size passed to the resize strategy is min(max(s, minWidthPx, 0),
\* maxWidthPx): never negative when maxWidthPx >= 0, never above maxWidthPx,
\* at least minWidthPx when minWidthPx <= maxWidthPx.
C21_ClampedColumnSize ==
  lastResize.applied =>
    /\ resizeStrategy.size.applied
    /\ resizeStrategy.size.n =
         ClampedSize(lastResize.size, lastResize.min, lastResize.max)
    /\ lastResize.max >= 0 => resizeStrategy.size.n >= 0
    /\ resizeStrategy.size.n <= lastResize.max
    /\ lastResize.min <= lastResize.max => resizeStrategy.size.n >= lastResize.min

C21_Witness ==
  /\ lastResize.applied
  /\ lastResize.size = -1
  /\ lastResize.min = -1
  /\ lastResize.max = MaxWidth
  /\ resizeStrategy.size = Applied(0)

\* ------------------------------------------------------------------------
\* MapCircle
\* ------------------------------------------------------------------------
\* C22: once initialized in a browser, the circle's center is the center
\* input when one is set (otherwise options.center) and its radius is the
\* radius input when it is defined, 0 included (otherwise options.radius).
C22_InputsTakePrecedence ==
  (circlePhase = "initialized" /\ isBrowser) =>
    /\ circle.exists
    /\ circle.center = (IF circleCenter # "undefined" THEN circleCenter
                        ELSE circleOptions.center)
    /\ circle.radius = (IF circleRadius # Undefined THEN circleRadius
                        ELSE circleOptions.radius)

====
